---- MODULE Spec2Model ----
(***************************************************************************)
(* Floorplan editor (huxingtu): the segment collection, the selection, and *)
(* the topology maintenance passes checkAndSplitObjects and                *)
(* checkAndMergeWalls of src/app.js over the geometry helpers of           *)
(* src/geometry.js.                                                        *)
(*                                                                         *)
(* Coordinates are integers (world units).  Every comparison the code      *)
(* makes on a quotient or a square root is made here on the cross-         *)
(* multiplied or squared integers, so it is exact.  A length below 1e-6    *)
(* (or a squared length below 1e-6) is, on integer coordinates, length 0.  *)
(* state.scale is the rational [n, d] (n/d): 1 initially, multiplied by    *)
(* 1.1 or 0.9 by the wheel handler.                                        *)
(*                                                                         *)
(* Three specifications: SpecTopo runs the two passes on collections drawn *)
(* from a catalogue of segments; SpecSnap calls the snap functions of      *)
(* src/geometry.js on arguments drawn from small sets; Spec is the editor  *)
(* from its initial state, one action per event (toolbar, mouse, keyboard, *)
(* file import), with one mouse button and pointer positions drawn from    *)
(* Points.                                                                 *)
(***************************************************************************)
EXTENDS Integers, Sequences, FiniteSets, TLC

VARIABLES
    objects,        \* state.objects: sequence of segment records
    selection,      \* state.selection: sequence of object identities
    scale,          \* state.scale as a rational [n |-> , d |-> ]
    mode,           \* state.mode: "wall", "door", "window", "furniture" or "null"
    isDragging,     \* state.isDragging
    dragStart,      \* state.dragStart: a point or NULL
    isResizing,     \* state.isResizing
    resizeHandle,   \* state.resizeHandle: "start", "end" or "null"
    isMoving,       \* state.isMoving
    isPotentialMove,\* state.isPotentialMove (undefined, hence falsy, until first set)
    lastMousePos,   \* state.lastMousePos: a point or NULL
    isRotating,     \* state.isRotating
    rotationCenter, \* state.rotationCenter, in half units (twice the coordinates), or NULL
    rotationStartAngle, \* state.rotationStartAngle as the direction it is the angle of
    initialObjectStates, \* state.initialObjectStates: [obj, p1, p2], p1 and p2 in half units
    isBoxSelecting, \* state.isBoxSelecting
    boxSelectionStart, \* state.boxSelectionStart: a point or NULL
    boxSelectionEnd,\* state.boxSelectionEnd: a point or NULL
    history,        \* state.history: sequence of snapshots (deep copies of state.objects)
    historyIndex,   \* state.historyIndex
    detached,       \* the objects state.selection still refers to that are no longer in
                    \* state.objects (handleImport replaces the collection only)
    pressed,        \* the environment: a mouse button is held down since a mousedown on the canvas
    nEvents,        \* the environment: events delivered to the editor so far
    nImports,       \* the environment: files imported so far
    pc,             \* position: "idle", inside the merge loop, or the pass/handler that just returned
    prevObjects,    \* state.objects when the current/last pass, loop iteration or handler started
    prevSelection,  \* state.selection at that moment
    callObjects,    \* state.objects when the current/last pass was called
    callSelection,  \* state.selection when the current/last pass was called
    active,         \* identity of the activeObj argument of the last split pass (0: none)
    touched,        \* identities of the segments the last handler created or modified
    ret,            \* return value of the last split pass
    nMerges,        \* merges performed by the current/last checkAndMergeWalls call
    priorMerges,    \* merges performed by the checkAndMergeWalls call before it
    lastPair,       \* <<w1, w2>> fused by the last loop iteration, or << >>
    arg,            \* the arguments of the last call of a function called on its own
                    \* (besides objects, scale)
    out,            \* what that call returned
    origin          \* for each snapshot of the stack, the content state.objects had before
                    \* the edit that pushed it

\* the fields of the global `state` object besides objects, selection and scale
editorVars == <<mode, isDragging, dragStart, isResizing, resizeHandle, isMoving,
                isPotentialMove, lastMousePos, isRotating, rotationCenter,
                rotationStartAngle, initialObjectStates, isBoxSelecting,
                boxSelectionStart, boxSelectionEnd, history, historyIndex, detached>>

\* what the properties observe of the topology passes
passVars == <<callObjects, callSelection, active, ret, nMerges, priorMerges, lastPair>>

\* what the properties observe of a function called on its own
snapVars == <<arg, out, origin>>

vars == <<objects, selection, scale, editorVars, pressed, nEvents, nImports, pc, prevObjects,
          prevSelection, touched, passVars, snapVars>>

NULL == [null |-> TRUE]

(***************************************************************************)
(* Small arithmetic helpers                                                *)
(***************************************************************************)
Min2(a, b) == IF b < a THEN b ELSE a

Max2(a, b) == IF b > a THEN b ELSE a

Sq(a) == a * a

\* Math.hypot(ax - bx, ay - by) squared
DistSq(ax, ay, bx, by) == Sq(ax - bx) + Sq(ay - by)

SeqToSet(s) == {s[k] : k \in 1..Len(s)}

\* the identities of the objects of a collection (a null entry is no object)
Ids(objs) == {objs[k].id : k \in {n \in 1..Len(objs) : objs[n] # NULL}}

\* a new object identity: the least one no live reference uses
FreshId(used) ==
    CHOOSE n \in 1..(Cardinality(used) + 1) :
        n \notin used /\ \A m \in 1..(n - 1) : m \in used

\* identities of the objects state.initialObjectStates still refers to, and of the
\* objects a snapshot holds itself (a copy held by a snapshot has identity 0)
HeldIds ==
    {initialObjectStates[k].obj : k \in 1..Len(initialObjectStates)}
        \cup (UNION { Ids(history[i]) : i \in 1..Len(history) } \ {0})

\* the comparison without the division by state.scale
DistGtIgnoringScale(distSq, k, sc) == distSq > Sq(k)

\* k / state.scale compared with a distance given by its square
\* dist > k / scale
DistGtOverScale(distSq, k, sc) == distSq * Sq(sc.n) > Sq(k) * Sq(sc.d)

\* dist < k / scale
DistLtOverScale(distSq, k, sc) == distSq * Sq(sc.n) < Sq(k) * Sq(sc.d)

(***************************************************************************)
(* geometry.js                                                             *)
(***************************************************************************)
\* pointToLineDistance(px, py, x1, y1, x2, y2) < tolerance
\* (Infinity for a degenerate line, so the comparison is false)
pointToLineDistanceLt(px, py, x1, y1, x2, y2, tolerance) ==
    LET dx == x2 - x1
        dy == y2 - y1
        lenSq == dx * dx + dy * dy
        cross == (px - x1) * dy - (py - y1) * dx
    IN  /\ lenSq # 0
        /\ Sq(cross) < Sq(tolerance) * lenSq

\* the quotient without the test of len
pointToLineDistanceUnguarded(px, py, x1, y1, x2, y2) ==
    [infinite |-> FALSE, crossSq |-> Sq((px - x1) * (y2 - y1) - (py - y1) * (x2 - x1)),
     lenSq |-> Sq(x2 - x1) + Sq(y2 - y1)]

\* pointToLineDistance(px, py, x1, y1, x2, y2): Infinity, or the quotient
\* sqrt(crossSq / lenSq) kept as its two squares
pointToLineDistance(px, py, x1, y1, x2, y2) ==
    LET dx == x2 - x1
        dy == y2 - y1
        lenSq == dx * dx + dy * dy
        cross == (px - x1) * dy - (py - y1) * dx
    IN  IF lenSq = 0 THEN [infinite |-> TRUE]
        ELSE [infinite |-> FALSE, crossSq |-> Sq(cross), lenSq |-> lenSq]

CollinearTolerance == 6

areSegmentsCollinear(segA, segB) ==
    /\ pointToLineDistanceLt(segB.x1, segB.y1, segA.x1, segA.y1, segA.x2, segA.y2, CollinearTolerance)
    /\ pointToLineDistanceLt(segB.x2, segB.y2, segA.x1, segA.y1, segA.x2, segA.y2, CollinearTolerance)

\* numerator of the projection parameter of (px, py) on seg: t = ProjNum / LenSqOf(seg)
ProjNum(px, py, seg) ==
    (px - seg.x1) * (seg.x2 - seg.x1) + (py - seg.y1) * (seg.y2 - seg.y1)

LenSqOf(seg) == Sq(seg.x2 - seg.x1) + Sq(seg.y2 - seg.y1)

\* epsilon = 1 / ContainEpsDen = 0.01
ContainEpsDen == 100

isSegmentContained(inner, outer) ==
    LET lenSq == LenSqOf(outer)
        n1 == ProjNum(inner.x1, inner.y1, outer)
        n2 == ProjNum(inner.x2, inner.y2, outer)
        minN == Min2(n1, n2)
        maxN == Max2(n1, n2)
    IN  /\ lenSq # 0
        /\ ContainEpsDen * minN > lenSq
        /\ ContainEpsDen * maxN < (ContainEpsDen - 1) * lenSq

\* segmentsOverlap(segA, segB, epsilon) with epsilon = 1 / epsDen
segmentsOverlap(segA, segB, epsDen) ==
    LET lenSq == LenSqOf(segA)
        b1 == ProjNum(segB.x1, segB.y1, segA)
        b2 == ProjNum(segB.x2, segB.y2, segA)
        bMin == Min2(b1, b2)
        bMax == Max2(b1, b2)
    IN  /\ lenSq # 0
        /\ ~ (bMax * epsDen < 0 - lenSq \/ bMin * epsDen > (epsDen + 1) * lenSq)

Pt(x, y) == [x |-> x, y |-> y]

\* the body of the inner forEach: keep best unless (p1, p2) is strictly closer
closerPair(best, p1, p2) ==
    IF best = NULL \/ DistSq(p1.x, p1.y, p2.x, p2.y) < best.distSq
    THEN [p1 |-> p1, p2 |-> p2, distSq |-> DistSq(p1.x, p1.y, p2.x, p2.y)]
    ELSE best

\* the four endpoint pairs in the order the nested forEach visits them;
\* the distance is kept as its square
getClosestEndpoints(segA, segB) ==
    closerPair(closerPair(closerPair(closerPair(NULL,
        Pt(segA.x1, segA.y1), Pt(segB.x1, segB.y1)),
        Pt(segA.x1, segA.y1), Pt(segB.x2, segB.y2)),
        Pt(segA.x2, segA.y2), Pt(segB.x1, segB.y1)),
        Pt(segA.x2, segA.y2), Pt(segB.x2, segB.y2))

\* segA.x1 + dx * t for t = num / lenSq
AlongX(seg, num) == seg.x1 + ((seg.x2 - seg.x1) * num) \div LenSqOf(seg)

AlongY(seg, num) == seg.y1 + ((seg.y2 - seg.y1) * num) \div LenSqOf(seg)

\* the division above is exact (the model stays on integer coordinates)
AlongExact(seg, num) ==
    /\ ((seg.x2 - seg.x1) * num) % LenSqOf(seg) = 0
    /\ ((seg.y2 - seg.y1) * num) % LenSqOf(seg) = 0

\* projection numerators of the four endpoints on segA's axis
CombinedNums(segA, segB) ==
    { ProjNum(segA.x1, segA.y1, segA), ProjNum(segA.x2, segA.y2, segA),
      ProjNum(segB.x1, segB.y1, segA), ProjNum(segB.x2, segB.y2, segA) }

SetMin(S) == CHOOSE m \in S : \A o \in S : m <= o

SetMax(S) == CHOOSE m \in S : \A o \in S : m >= o

\* the concatenation from segA's start to segB's end instead of the enclosing span
getCombinedSegmentEndToEnd(segA, segB) ==
    IF LenSqOf(segA) = 0 THEN NULL
    ELSE [start |-> [x |-> segA.x1, y |-> segA.y1], end |-> [x |-> segB.x2, y |-> segB.y2]]

\* the segment from parameter minT to parameter maxT on segA's axis
getCombinedSegment(segA, segB) ==
    IF LenSqOf(segA) = 0 THEN NULL
    ELSE LET minT == SetMin(CombinedNums(segA, segB))
             maxT == SetMax(CombinedNums(segA, segB))
         IN  [start |-> [x |-> AlongX(segA, minT), y |-> AlongY(segA, minT)],
              end   |-> [x |-> AlongX(segA, maxT), y |-> AlongY(segA, maxT)]]

TouchTolerance == 2

\* epsilon 0.001 passed by isGapBlocked to segmentsOverlap
GapOverlapEpsDen == 1000

touchesEndpoint(gapSegment, obj) ==
    \/ DistSq(obj.x1, obj.y1, gapSegment.x1, gapSegment.y1) < Sq(TouchTolerance)
    \/ DistSq(obj.x2, obj.y2, gapSegment.x1, gapSegment.y1) < Sq(TouchTolerance)
    \/ DistSq(obj.x1, obj.y1, gapSegment.x2, gapSegment.y2) < Sq(TouchTolerance)
    \/ DistSq(obj.x2, obj.y2, gapSegment.x2, gapSegment.y2) < Sq(TouchTolerance)

\* the callback without the endpoint-touch test
blocksGapNoTouch(gapSegment, segA, segB, obj) ==
    IF obj.id = segA.id \/ obj.id = segB.id THEN FALSE
    ELSE IF LenSqOf(gapSegment) = 0 THEN FALSE
    ELSE areSegmentsCollinear(gapSegment, obj) /\ segmentsOverlap(gapSegment, obj, GapOverlapEpsDen)

\* the callback without the collinear-overlap test
blocksGapTouchOnly(gapSegment, segA, segB, obj) ==
    IF obj.id = segA.id \/ obj.id = segB.id THEN FALSE
    ELSE touchesEndpoint(gapSegment, obj)

\* what the callback of objects.some returns for obj
blocksGap(gapSegment, segA, segB, obj) ==
    IF obj.id = segA.id \/ obj.id = segB.id THEN FALSE
    ELSE IF touchesEndpoint(gapSegment, obj) THEN TRUE
    ELSE IF LenSqOf(gapSegment) = 0 THEN FALSE
    ELSE areSegmentsCollinear(gapSegment, obj) /\ segmentsOverlap(gapSegment, obj, GapOverlapEpsDen)

isGapBlocked(gapSegment, segA, segB, objs) ==
    \E k \in 1..Len(objs) : blocksGap(gapSegment, segA, segB, objs[k])

(***************************************************************************)
(* app.js: checkAndSplitObjects                                            *)
(***************************************************************************)
\* the conditions without the test of otherObj.type
splitsOtherAnyType(otherObj, activeObj) ==
    /\ otherObj.id # activeObj.id
    /\ areSegmentsCollinear(otherObj, activeObj)
    /\ isSegmentContained(activeObj, otherObj)

\* the conditions under which the forEach callback splits otherObj
splitsOther(otherObj, activeObj) ==
    /\ otherObj.id # activeObj.id
    /\ otherObj.type = "wall"
    /\ areSegmentsCollinear(otherObj, activeObj)
    /\ isSegmentContained(activeObj, otherObj)

\* numerators of tStart and tEnd (over wallLenSq)
tStartNum(otherObj, activeObj) ==
    Min2(ProjNum(activeObj.x1, activeObj.y1, otherObj), ProjNum(activeObj.x2, activeObj.y2, otherObj))

tEndNum(otherObj, activeObj) ==
    Max2(ProjNum(activeObj.x1, activeObj.y1, otherObj), ProjNum(activeObj.x2, activeObj.y2, otherObj))

\* the remainder started at splitStart instead of splitEnd
segment2FromSplitStart(otherObj, activeObj, newId) ==
    [otherObj EXCEPT !.id = newId,
                     !.x1 = AlongX(otherObj, tStartNum(otherObj, activeObj)),
                     !.y1 = AlongY(otherObj, tStartNum(otherObj, activeObj))]

\* segment2: a copy of otherObj from splitEnd to otherObj's original end
segment2(otherObj, activeObj, newId) ==
    [otherObj EXCEPT !.id = newId,
                     !.x1 = AlongX(otherObj, tEndNum(otherObj, activeObj)),
                     !.y1 = AlongY(otherObj, tEndNum(otherObj, activeObj))]

\* otherObj left as it is
otherUntouched(otherObj, activeObj) == otherObj

\* otherObj after otherObj.x2 = splitStart.x; otherObj.y2 = splitStart.y
truncateOther(otherObj, activeObj) ==
    [otherObj EXCEPT !.x2 = AlongX(otherObj, tStartNum(otherObj, activeObj)),
                     !.y2 = AlongY(otherObj, tStartNum(otherObj, activeObj))]

\* the forEach over state.objects from index k on; newObjects collects the pushed remainders
RECURSIVE splitLoop(_, _, _, _, _)
splitLoop(objs, activeObj, k, newObjects, used) ==
    IF k > Len(objs) THEN [objects |-> objs, newObjects |-> newObjects]
    ELSE IF splitsOther(objs[k], activeObj)
         THEN LET newId == FreshId(used)
              IN  splitLoop([objs EXCEPT ![k] = truncateOther(objs[k], activeObj)],
                            activeObj, k + 1,
                            Append(newObjects, segment2(objs[k], activeObj, newId)),
                            used \cup {newId})
         ELSE splitLoop(objs, activeObj, k + 1, newObjects, used)

\* checkAndSplitObjects(activeObj): the collection afterwards and the return value
\* if (splitOccurred) state.objects.push(...newObjects); return splitOccurred
checkAndSplitObjects(objs, activeObj, used) ==
    LET r == splitLoop(objs, activeObj, 1, << >>, used)
    IN  [objects |-> IF Len(r.newObjects) > 0 THEN r.objects \o r.newObjects ELSE r.objects,
         ret |-> Len(r.newObjects) > 0]

\* the position of the first null entry of the collection, 0 when it has none
firstNull(objs) ==
    IF \E k \in 1..Len(objs) : objs[k] = NULL
    THEN CHOOSE k \in 1..Len(objs) : objs[k] = NULL /\ \A n \in 1..(k - 1) : objs[n] # NULL
    ELSE 0

\* checkAndSplitObjects(activeObj) over a collection whose entry n is null: the
\* callback throws a TypeError on otherObj.type; the entries before n have been
\* visited, the walls among them truncated, and nothing has been pushed
splitUntilThrow(objs, activeObj, n, used) ==
    splitLoop(SubSeq(objs, 1, n - 1), activeObj, 1, << >>, used).objects
        \o SubSeq(objs, n, Len(objs))

(***************************************************************************)
(* app.js: checkAndMergeWalls                                              *)
(***************************************************************************)
MergeDistance == 150

\* the collection without the filter on type
objectsOfAnyType(objs) == objs

wallsOf(objs) == SelectSeq(objs, LAMBDA o : o.type = "wall")

\* gapSegment built from the closest endpoint pair
gapSegmentOf(closest) ==
    [x1 |-> closest.p1.x, y1 |-> closest.p1.y, x2 |-> closest.p2.x, y2 |-> closest.p2.y]

\* no `continue` is taken for the pair (w1, w2) in the inner loop body
pairMerges(w1, w2, objs, sc) ==
    LET closest == getClosestEndpoints(w1, w2)
    IN  /\ areSegmentsCollinear(w1, w2)
        /\ closest # NULL
        /\ ~ DistGtOverScale(closest.distSq, MergeDistance, sc)
        /\ ~ isGapBlocked(gapSegmentOf(closest), w1, w2, objs)
        /\ getCombinedSegment(w1, w2) # NULL

\* the scan with an inner loop that looks at the next wall only
RECURSIVE firstPairAdjacentOnly(_, _, _, _, _)
firstPairAdjacentOnly(walls, objs, sc, i, j) ==
    IF i > Len(walls) THEN << >>
    ELSE IF j > Len(walls) \/ j > i + 1 THEN firstPairAdjacentOnly(walls, objs, sc, i + 1, i + 2)
    ELSE IF pairMerges(walls[i], walls[j], objs, sc) THEN << i, j >>
    ELSE firstPairAdjacentOnly(walls, objs, sc, i, j + 1)

\* the nested for loops from (i, j) on: the first pair that merges, or << >>
RECURSIVE firstPair(_, _, _, _, _)
firstPair(walls, objs, sc, i, j) ==
    IF i > Len(walls) THEN << >>
    ELSE IF j > Len(walls) THEN firstPair(walls, objs, sc, i + 1, i + 2)
    ELSE IF pairMerges(walls[i], walls[j], objs, sc) THEN << i, j >>
    ELSE firstPair(walls, objs, sc, i, j + 1)

\* the filter that removes w1 only
replacePairKeepsW2(objs, w1, w2, mergedObj) ==
    Append(SelectSeq(objs, LAMBDA o : o.id # w1.id), mergedObj)

\* state.objects = state.objects.filter(o => o !== w1 && o !== w2); state.objects.push(mergedObj)
replacePair(objs, w1, w2, mergedObj) ==
    Append(SelectSeq(objs, LAMBDA o : o.id # w1.id /\ o.id # w2.id), mergedObj)

\* the merged segment takes the place of w1 and w2 in the selection, the rest stays selected
selectionAfterMergeKeepsOthers(sel, w1, w2, mergedObj) ==
    IF w1.id \in SeqToSet(sel) \/ w2.id \in SeqToSet(sel)
    THEN Append(SelectSeq(sel, LAMBDA i : i # w1.id /\ i # w2.id), mergedObj.id)
    ELSE sel

\* the selection after a merge of w1 and w2 into mergedObj
selectionAfterMerge(sel, w1, w2, mergedObj) ==
    IF w1.id \in SeqToSet(sel) \/ w2.id \in SeqToSet(sel) THEN << mergedObj.id >> ELSE sel

\* the do-while body once the scan has stopped at the index pair p (<< >>: no pair):
\* the statements of the inner loop body from the filter to `merged = true`, with
\* mergedObj = {...w1, x1, y1, x2, y2 of mergedSegment}
mergeAt(objs, sel, walls, p) ==
    IF p = << >>
    THEN [merged |-> FALSE, objects |-> objs, selection |-> sel, pair |-> << >>]
    ELSE LET w1 == walls[p[1]]
             w2 == walls[p[2]]
             mergedSegment == getCombinedSegment(w1, w2)
             mergedObj ==
                 [w1 EXCEPT !.id = FreshId(Ids(objs) \cup SeqToSet(sel) \cup HeldIds),
                            !.x1 = mergedSegment.start.x, !.y1 = mergedSegment.start.y,
                            !.x2 = mergedSegment.end.x,   !.y2 = mergedSegment.end.y]
         IN  [merged |-> TRUE,
              objects |-> replacePair(objs, w1, w2, mergedObj),
              selection |-> selectionAfterMerge(sel, w1, w2, mergedObj),
              pair |-> << w1, w2 >>]

\* one iteration of the do-while loop: scan the pairs, merge the first that qualifies
mergeIteration(objs, sel, sc) ==
    mergeAt(objs, sel, wallsOf(objs), firstPair(wallsOf(objs), objs, sc, 1, 2))

\* checkAndMergeWalls(): iterate until an iteration merges nothing
RECURSIVE checkAndMergeWalls(_, _, _)
checkAndMergeWalls(objs, sel, sc) ==
    LET r == mergeIteration(objs, sel, sc)
    IN  IF r.merged THEN checkAndMergeWalls(r.objects, r.selection, sc)
        ELSE [objects |-> r.objects, selection |-> r.selection]

(***************************************************************************)
(* Segments the passes are run on.  TYPE_DEFAULTS of app.js give width,    *)
(* height and color of a drawn segment; the property panel can change them.*)
(***************************************************************************)
Seg(type, x1, y1, x2, y2, width, height, color) ==
    [id |-> 0, type |-> type, subtype |-> IF type = "door" THEN "single" ELSE "none",
     isOpen |-> FALSE, x1 |-> x1, y1 |-> y1, x2 |-> x2, y2 |-> y2,
     width |-> width, height |-> height, color |-> color]

Catalogue ==
    { Seg("wall", 0, 0, 100, 0, 3, 80, "#00ffcc"),
      Seg("wall", 0, 0, 50, 0, 3, 80, "#00ffcc"),
      Seg("wall", 52, 0, 100, 0, 5, 90, "#112233"),
      Seg("wall", 100, 3, 60, 3, 4, 80, "#00ffcc"),
      Seg("wall", 53, 0, 57, 0, 3, 80, "#445566"),
      Seg("wall", 240, 0, 300, 0, 3, 80, "#00ffcc"),
      Seg("wall", 50, 0, 50, 4, 3, 80, "#00ffcc"),
      Seg("door", 51, 0, 51, 30, 2, 70, "#ffd700"),
      Seg("window", 30, 0, 70, 0, 2, 50, "#87cefa"),
      Seg("furniture", 10, 3, 48, 0, 3, 45, "#ff69b4") }

\* largest collection the passes are run on
MaxObjs == 3

\* sequences of n distinct members of S
RECURSIVE DistinctSeqs(_, _)
DistinctSeqs(S, n) ==
    IF n = 0 THEN { << >> }
    ELSE UNION { { Append(q, e) : e \in S \ SeqToSet(q) } : q \in DistinctSeqs(S, n - 1) }

\* identities are assigned by position; a collection read from a file by handleImport
\* can hold a null entry
Collections ==
    UNION { { [k \in 1..Len(q) |-> IF q[k] = NULL THEN NULL ELSE [q[k] EXCEPT !.id = k]]
              : q \in DistinctSeqs(Catalogue \cup {NULL}, n) }
            : n \in 0..MaxObjs }

\* selections tried: nothing, one object, everything
Selections(objs) ==
    IF firstNull(objs) # 0 THEN { << >> }
    ELSE { << >> } \cup { << k >> : k \in 1..Len(objs) } \cup { [k \in 1..Len(objs) |-> k] }

InitTopo ==
    /\ objects \in Collections
    /\ selection \in Selections(objects)
    /\ scale \in { [n |-> 1, d |-> 1], [n |-> 11, d |-> 10] }  \* 1 and 1.1 (one wheel step in)
    /\ mode = "null"
    /\ isDragging = FALSE
    /\ dragStart = NULL
    /\ isResizing = FALSE
    /\ resizeHandle = "null"
    /\ isMoving = FALSE
    /\ isPotentialMove = FALSE
    /\ lastMousePos = NULL
    /\ isRotating = FALSE
    /\ rotationCenter = NULL
    /\ rotationStartAngle = [dx |-> 1, dy |-> 0]
    /\ initialObjectStates = << >>
    /\ isBoxSelecting = FALSE
    /\ boxSelectionStart = NULL
    /\ boxSelectionEnd = NULL
    /\ history = << >>
    /\ historyIndex = -1
    /\ detached = << >>
    /\ pressed = FALSE
    /\ nEvents = 0
    /\ nImports = 0
    /\ arg = NULL
    /\ out = NULL
    /\ origin = << >>
    /\ touched = {}
    /\ pc = "idle"
    /\ prevObjects = objects
    /\ prevSelection = selection
    /\ callObjects = objects
    /\ callSelection = selection
    /\ active = 0
    /\ ret = FALSE
    /\ nMerges = 0
    /\ priorMerges = 0
    /\ lastPair = << >>

\* checkAndMergeWalls is called (a second time when it has just returned)
MergeBegin ==
    /\ pc \in {"idle", "merged", "create"}
    /\ firstNull(objects) = 0
    /\ pc' = IF pc = "merged" THEN "remerging" ELSE "merging"
    /\ callObjects' = objects
    /\ callSelection' = selection
    /\ prevObjects' = objects
    /\ prevSelection' = selection
    /\ priorMerges' = nMerges
    /\ nMerges' = 0
    /\ lastPair' = << >>
    /\ UNCHANGED <<objects, selection, scale, editorVars, pressed, nEvents, nImports, snapVars, touched, active, ret>>

\* one iteration of the do-while loop of checkAndMergeWalls
MergeLoop ==
    /\ pc \in {"merging", "remerging"}
    /\ \E r \in {mergeIteration(objects, selection, scale)} :
           /\ objects' = r.objects
           /\ selection' = r.selection
           /\ lastPair' = r.pair
           /\ nMerges' = IF r.merged THEN nMerges + 1 ELSE nMerges
           /\ pc' = IF r.merged THEN pc
                    ELSE IF pc = "merging" THEN "merged" ELSE "remerged"
    /\ prevObjects' = objects
    /\ prevSelection' = selection
    /\ UNCHANGED <<scale, editorVars, pressed, nEvents, nImports, snapVars, touched, callObjects, callSelection, active, ret, priorMerges>>

\* checkAndSplitObjects(objects[a]) is called and returns
SplitPass ==
    /\ pc = "idle"
    /\ firstNull(objects) = 0
    /\ \E a \in 1..Len(objects) :
        \E r \in {checkAndSplitObjects(objects, objects[a],
                                    Ids(objects) \cup SeqToSet(selection) \cup HeldIds)} :
            /\ objects' = r.objects
            /\ ret' = r.ret
            /\ active' = objects[a].id
    /\ pc' = "split"
    /\ callObjects' = objects
    /\ callSelection' = selection
    /\ prevObjects' = objects
    /\ prevSelection' = selection
    /\ UNCHANGED <<selection, scale, editorVars, pressed, nEvents, nImports, snapVars, touched, nMerges, priorMerges, lastPair>>

\* checkAndSplitObjects is called again with the activeObj of the pass that just returned
SplitAgain ==
    /\ pc = "split"
    /\ \E a \in 1..Len(objects) :
        /\ objects[a].id = active
        /\ \E r \in {checkAndSplitObjects(objects, objects[a],
                                          Ids(objects) \cup SeqToSet(selection) \cup HeldIds)} :
               /\ objects' = r.objects
               /\ ret' = r.ret
    /\ pc' = "split.again"
    /\ callObjects' = objects
    /\ callSelection' = selection
    /\ prevObjects' = objects
    /\ prevSelection' = selection
    /\ UNCHANGED <<selection, scale, editorVars, pressed, nEvents, nImports, snapVars, touched, active, nMerges,
                   priorMerges, lastPair>>

\* the collection with the entries at k and k + 1 exchanged
swapped(objs, k) == [objs EXCEPT ![k] = objs[k + 1], ![k + 1] = objs[k]]

\* checkAndMergeWalls is called on the collection of the call that just returned,
\* two neighbouring entries exchanged
MergeReordered ==
    /\ pc = "merged"
    /\ \E k \in 1..(Len(callObjects) - 1) :
        /\ arg' = swapped(callObjects, k)
        /\ out' = checkAndMergeWalls(swapped(callObjects, k), callSelection, scale).objects
    /\ pc' = "merged.reordered"
    /\ UNCHANGED <<objects, selection, scale, editorVars, pressed, nEvents, nImports, prevObjects,
                   prevSelection, touched, passVars, origin>>

\* checkAndMergeWalls is called on a collection with a null entry: the filter callback
\* throws a TypeError on o.type before anything is changed
MergeThrows ==
    /\ pc = "idle"
    /\ firstNull(objects) # 0
    /\ pc' = "merge.threw"
    /\ callObjects' = objects
    /\ callSelection' = selection
    /\ prevObjects' = objects
    /\ prevSelection' = selection
    /\ UNCHANGED <<objects, selection, scale, editorVars, pressed, nEvents, nImports, snapVars, touched, active, ret,
                   nMerges, priorMerges, lastPair>>

\* checkAndSplitObjects(objects[a]) is called on a collection with a null entry and throws
SplitThrows ==
    /\ pc = "idle"
    /\ firstNull(objects) # 0
    /\ \E a \in 1..Len(objects) :
        /\ objects[a] # NULL
        /\ objects' = splitUntilThrow(objects, objects[a], firstNull(objects),
                                      Ids(objects) \cup SeqToSet(selection) \cup HeldIds)
        /\ active' = objects[a].id
    /\ pc' = "split.threw"
    /\ callObjects' = objects
    /\ callSelection' = selection
    /\ prevObjects' = objects
    /\ prevSelection' = selection
    /\ UNCHANGED <<selection, scale, editorVars, pressed, nEvents, nImports, snapVars, touched, ret, nMerges,
                   priorMerges, lastPair>>

NextTopo ==
    \/ MergeBegin \/ MergeLoop \/ MergeReordered
    \/ SplitPass \/ SplitAgain \/ MergeThrows \/ SplitThrows

SpecTopo == InitTopo /\ [][NextTopo]_vars

(***************************************************************************)
(* The editor.  The global `state` object of app.js is read as a record,   *)
(* and every event handler is a function from the state at the event to    *)
(* the state when the handler returns.  Arithmetic is the real arithmetic  *)
(* the floating-point code approximates (cos(pi) = -1, sin(pi) = 0); a     *)
(* handler result that leaves the integer grid is marked inexact.          *)
(***************************************************************************)
State ==
    [mode |-> mode, objects |-> objects, selection |-> selection,
     isDragging |-> isDragging, dragStart |-> dragStart,
     isResizing |-> isResizing, resizeHandle |-> resizeHandle,
     isMoving |-> isMoving, isPotentialMove |-> isPotentialMove,
     lastMousePos |-> lastMousePos, isRotating |-> isRotating,
     rotationCenter |-> rotationCenter, rotationStartAngle |-> rotationStartAngle,
     initialObjectStates |-> initialObjectStates, isBoxSelecting |-> isBoxSelecting,
     boxSelectionStart |-> boxSelectionStart, boxSelectionEnd |-> boxSelectionEnd,
     history |-> history, historyIndex |-> historyIndex, scale |-> scale,
     detached |-> detached]

\* a handler returned: the state it left, the branch it took, the segments it
\* created or modified, and whether every value it computed is on the grid
Returned(st, branch, ids, exact) ==
    [state |-> st, pc |-> branch, touched |-> ids, exact |-> exact]

\* the object a reference held in the selection points to
ObjOf(st, id) ==
    LET objs == st.objects \o st.detached
    IN  objs[CHOOSE k \in 1..Len(objs) : objs[k].id = id]

Abs(a) == IF a < 0 THEN 0 - a ELSE a

Sign(a) == IF a < 0 THEN -1 ELSE IF a > 0 THEN 1 ELSE 0

(***************************************************************************)
(* history.js                                                              *)
(***************************************************************************)
HistoryLimit == 50

\* the objects themselves in place of copies of them
sameObjects(objs) == objs

\* JSON.parse(JSON.stringify(objects)): every field of every object survives
\* (finite numbers, strings, booleans), the identity of the objects does not
cloneObjects(objs) == [k \in 1..Len(objs) |-> [objs[k] EXCEPT !.id = 0]]

\* the objects of a deep copy are new objects: identities no live reference uses
RECURSIVE asNewObjects(_, _, _)
asNewObjects(objs, k, used) ==
    IF k > Len(objs) THEN objs
    ELSE asNewObjects([objs EXCEPT ![k].id = FreshId(used)], k + 1,
                      used \cup {FreshId(used)})

\* state.history.slice(0, state.historyIndex + 1) when a redo tail exists, then the
\* push, the increment, and the eviction of the oldest snapshot beyond limit
\* pushSnapshot without the shift that evicts the oldest snapshot
pushSnapshotUnbounded(st, limit) ==
    LET withoutRedoTail == IF st.historyIndex < Len(st.history) - 1
                           THEN SubSeq(st.history, 1, st.historyIndex + 1)
                           ELSE st.history
    IN  [st EXCEPT !.history = Append(withoutRedoTail, cloneObjects(st.objects)),
                   !.historyIndex = st.historyIndex + 1]

pushSnapshot(st, limit) ==
    LET withoutRedoTail == IF st.historyIndex < Len(st.history) - 1
                           THEN SubSeq(st.history, 1, st.historyIndex + 1)
                           ELSE st.history
        h == Append(withoutRedoTail, cloneObjects(st.objects))
    IN  IF Len(h) > limit
        THEN [st EXCEPT !.history = Tail(h), !.historyIndex = st.historyIndex + 1 - 1]
        ELSE [st EXCEPT !.history = h, !.historyIndex = st.historyIndex + 1]

\* History.undo(state): the state afterwards and the return value
undo(st) ==
    IF st.historyIndex > 0
    THEN [state |-> [st EXCEPT !.historyIndex = st.historyIndex - 1,
                               !.objects = asNewObjects(st.history[st.historyIndex], 1, HeldIds),
                               !.selection = << >>],
          ret |-> TRUE]
    ELSE IF st.historyIndex = 0
    THEN [state |-> [st EXCEPT !.historyIndex = -1, !.objects = << >>, !.selection = << >>],
          ret |-> TRUE]
    ELSE [state |-> st, ret |-> FALSE]

\* redo without the increment of historyIndex
redoKeepsIndex(st) ==
    IF st.historyIndex < Len(st.history) - 1
    THEN [state |-> [st EXCEPT !.objects = asNewObjects(st.history[st.historyIndex + 2], 1, HeldIds),
                               !.selection = << >>],
          ret |-> TRUE]
    ELSE [state |-> st, ret |-> FALSE]

\* History.redo(state): the state afterwards and the return value
redo(st) ==
    IF st.historyIndex < Len(st.history) - 1
    THEN [state |-> [st EXCEPT !.historyIndex = st.historyIndex + 1,
                               !.objects = asNewObjects(st.history[st.historyIndex + 2], 1, HeldIds),
                               !.selection = << >>],
          ret |-> TRUE]
    ELSE [state |-> st, ret |-> FALSE]

(***************************************************************************)
(* app.js: editing commands                                                *)
(***************************************************************************)
saveToHistory(st) == pushSnapshot(st, HistoryLimit)

setMode(st, m) == [st EXCEPT !.mode = m, !.selection = << >>]

\* the Escape branch of the keydown handler
escapeKey(st) ==
    [st EXCEPT !.mode = "null", !.selection = << >>,
               !.isResizing = FALSE, !.isBoxSelecting = FALSE]

\* reader.onload of handleImport: the parsed file becomes state.objects; no other
\* field of the state is assigned and no snapshot is pushed
handleImport(st, objs) ==
    [st EXCEPT !.objects = asNewObjects(objs, 1, Ids(st.objects) \cup SeqToSet(st.selection)
                                                    \cup HeldIds),
               !.detached = @ \o SelectSeq(st.objects,
                                           LAMBDA o : o.id \in SeqToSet(st.selection))]

\* state.objects and state.selection after checkAndMergeWalls()
mergeWalls(st) ==
    LET r == checkAndMergeWalls(st.objects, st.selection, st.scale)
    IN  [st EXCEPT !.objects = r.objects, !.selection = r.selection]

\* state.objects.filter(obj => !state.selection.includes(obj)), then merge and save
deleteSelected(st) ==
    IF Len(st.selection) > 0
    THEN saveToHistory(mergeWalls(
             [st EXCEPT !.objects = SelectSeq(@, LAMBDA o : o.id \notin SeqToSet(st.selection)),
                        !.selection = << >>]))
    ELSE st

(***************************************************************************)
(* geometry.js: snapping                                                   *)
(***************************************************************************)
\* Math.max(0, Math.min(1, t)) on the numerator of t
clampNum(num, lenSq) == Max2(0, Min2(lenSq, num))

\* the point of seg at the clamped parameter, with its squared distance from (px, py)
closestPointOnSegment(px, py, seg) ==
    IF LenSqOf(seg) = 0
    THEN [x |-> seg.x1, y |-> seg.y1, distSq |-> DistSq(px, py, seg.x1, seg.y1)]
    ELSE LET num == clampNum(ProjNum(px, py, seg), LenSqOf(seg))
         IN  [x |-> AlongX(seg, num), y |-> AlongY(seg, num),
              distSq |-> DistSq(px, py, AlongX(seg, num), AlongY(seg, num))]

\* the closest point is a grid point
closestPointExact(px, py, seg) ==
    IF LenSqOf(seg) = 0 THEN TRUE
    ELSE AlongExact(seg, clampNum(ProjNum(px, py, seg), LenSqOf(seg)))

SnapThreshold == 15

\* the comparison with <= in place of <
closerThanOrAt(distSq, minDistSq, k, sc) ==
    IF minDistSq = -1 THEN distSq * Sq(sc.n) <= Sq(k) * Sq(sc.d) ELSE distSq <= minDistSq

\* the comparison with a threshold of k in place of k / scale
closerThanIgnoringScale(distSq, minDistSq, k, sc) ==
    IF minDistSq = -1 THEN distSq < Sq(k) ELSE distSq < minDistSq

\* dist < minDist, where minDist is still the threshold (-1) or a distance found
closerThan(distSq, minDistSq, k, sc) ==
    IF minDistSq = -1 THEN DistLtOverScale(distSq, k, sc) ELSE distSq < minDistSq

\* consider without `minDist = dist`: every candidate below the threshold is taken
considerWithinThreshold(acc, px, py, distSq, sc) ==
    IF DistLtOverScale(distSq, SnapThreshold, sc)
    THEN [x |-> px, y |-> py, minDistSq |-> distSq]
    ELSE acc

\* consider(px, py, dist) of snapToObjects
consider(acc, px, py, distSq, sc) ==
    IF closerThan(distSq, acc.minDistSq, SnapThreshold, sc)
    THEN [x |-> px, y |-> py, minDistSq |-> distSq]
    ELSE acc

\* the forEach of snapToObjects from index k on: both endpoints of each object that
\* is not excluded, then the closest point along it
RECURSIVE snapLoop(_, _, _, _, _, _, _)
snapLoop(acc, x, y, objs, k, sc, excludeObjects) ==
    IF k > Len(objs) THEN acc
    ELSE IF objs[k].id \in excludeObjects
         THEN snapLoop(acc, x, y, objs, k + 1, sc, excludeObjects)
         ELSE LET obj == objs[k]
                  snap == closestPointOnSegment(x, y, obj)
              IN  snapLoop(
                      consider(consider(consider(acc, obj.x1, obj.y1,
                                                 DistSq(x, y, obj.x1, obj.y1), sc),
                                        obj.x2, obj.y2, DistSq(x, y, obj.x2, obj.y2), sc),
                               snap.x, snap.y, snap.distSq, sc),
                      x, y, objs, k + 1, sc, excludeObjects)

\* snapToObjects(x, y, objects, scale, excludeObjects): {x: snappedX, y: snappedY}
snapToObjects(x, y, objs, sc, excludeObjects) ==
    snapLoop([x |-> x, y |-> y, minDistSq |-> -1], x, y, objs, 1, sc, excludeObjects)

snapToObjectsExact(x, y, objs, excludeObjects) ==
    \A k \in 1..Len(objs) :
        objs[k].id \in excludeObjects \/ closestPointExact(x, y, objs[k])

\* the integer square root of n
ISqrt(n) == CHOOSE r \in 0..n : Sq(r) <= n /\ Sq(r + 1) > n

\* Math.round(angle / (pi / 4)) * (pi / 4) for the direction (dx, dy), as the unit
\* step of the snapped direction: an axis when the direction is within 22.5 degrees
\* of it (|dy| < (sqrt 2 - 1) |dx|, squared), a diagonal otherwise
snappedDirection(dx, dy) ==
    IF Sq(Abs(dx) + Abs(dy)) < 2 * Sq(dx) THEN [x |-> Sign(dx), y |-> 0]
    ELSE IF Sq(Abs(dx) + Abs(dy)) < 2 * Sq(dy) THEN [x |-> 0, y |-> Sign(dy)]
    ELSE [x |-> Sign(dx), y |-> Sign(dy)]

\* the length of the steps of the snapped direction that make Math.hypot(dx, dy):
\* dist along an axis, dist / sqrt 2 along a diagonal (squared)
stepsSq(dx, dy, dir) ==
    IF dir.x # 0 /\ dir.y # 0 THEN (Sq(dx) + Sq(dy)) \div 2 ELSE Sq(dx) + Sq(dy)

\* the end point of a drawn or resized segment: the object snap when it moved the
\* point, else the angle snap relative to the fixed point,
\* fixed + (cos, sin)(snappedAngle) * dist
snapOrAngle(snapped, fixedX, fixedY, x, y) ==
    IF snapped.x # x \/ snapped.y # y
    THEN [x |-> snapped.x, y |-> snapped.y]
    ELSE LET dir == snappedDirection(x - fixedX, y - fixedY)
             steps == ISqrt(stepsSq(x - fixedX, y - fixedY, dir))
         IN  [x |-> fixedX + dir.x * steps, y |-> fixedY + dir.y * steps]

\* the angle snap, when it applies, lands on a grid point
snapOrAngleExact(snapped, fixedX, fixedY, x, y) ==
    LET dir == snappedDirection(x - fixedX, y - fixedY)
    IN  \/ snapped.x # x \/ snapped.y # y
        \/ /\ (dir.x # 0 /\ dir.y # 0) => (Sq(x - fixedX) + Sq(y - fixedY)) % 2 = 0
           /\ Sq(ISqrt(stepsSq(x - fixedX, y - fixedY, dir)))
                  = stepsSq(x - fixedX, y - fixedY, dir)

\* getBounds(obj), centres in half units
getBounds(obj) ==
    [left |-> Min2(obj.x1, obj.x2), right |-> Max2(obj.x1, obj.x2),
     top |-> Min2(obj.y1, obj.y2), bottom |-> Max2(obj.y1, obj.y2),
     centerX2 |-> obj.x1 + obj.x2, centerY2 |-> obj.y1 + obj.y2]

\* [left, centerX, right] or [top, centerY, bottom], in half units
candidates2(bounds, axis) ==
    IF axis = "x" THEN << 2 * bounds.left, bounds.centerX2, 2 * bounds.right >>
    ELSE << 2 * bounds.top, bounds.centerY2, 2 * bounds.bottom >>

AxisThreshold == 12

\* dist < best.dist for a distance in half units; best.dist is k / scale until found
nearerThan(dist2, best, k, sc) ==
    IF best.found THEN dist2 < best.dist2 ELSE dist2 * sc.n < 2 * k * sc.d

\* the candidates.forEach callback of getAxisSnap
axisCandidate(best, candidate2, value, sc) ==
    IF nearerThan(Abs(candidate2 - 2 * value), best, AxisThreshold, sc)
    THEN [found |-> TRUE, dist2 |-> Abs(candidate2 - 2 * value), value2 |-> candidate2]
    ELSE best

\* objects.forEach of getAxisSnap from index k on, the three candidates of each object
RECURSIVE axisLoop(_, _, _, _, _, _, _)
axisLoop(best, value, axis, objs, k, exclude, sc) ==
    IF k > Len(objs) THEN best
    ELSE IF objs[k].id \in exclude
         THEN axisLoop(best, value, axis, objs, k + 1, exclude, sc)
         ELSE LET c == candidates2(getBounds(objs[k]), axis)
              IN  axisLoop(axisCandidate(axisCandidate(axisCandidate(best, c[1], value, sc),
                                                       c[2], value, sc),
                                         c[3], value, sc),
                           value, axis, objs, k + 1, exclude, sc)

\* getAxisSnap(value, axis, objects, exclude, scale): best, whose value2 is the
\* snapped value in half units when best.found, and null otherwise
getAxisSnap(value, axis, objs, exclude, sc) ==
    axisLoop([found |-> FALSE, dist2 |-> 0, value2 |-> 0], value, axis, objs, 1, exclude, sc)

\* if (snap !== null) value = snap
withAxisSnap(value, snap) == IF snap.found THEN snap.value2 \div 2 ELSE value

axisSnapExact(snap) == snap.found => snap.value2 % 2 = 0

\* the correction towards the start of the target in place of its closest point
moveEndpointToStart(acc, px, py, target, sc) ==
    IF closerThan(closestPointOnSegment(px, py, target).distSq, acc.minDistSq, SnapThreshold, sc)
    THEN [x |-> target.x1 - px, y |-> target.y1 - py,
          minDistSq |-> closestPointOnSegment(px, py, target).distSq]
    ELSE acc

\* the test and the assignments of getMoveSnapCorrection for one moved endpoint
moveEndpoint(acc, px, py, target, sc) ==
    LET snap == closestPointOnSegment(px, py, target)
    IN  IF closerThan(snap.distSq, acc.minDistSq, SnapThreshold, sc)
        THEN [x |-> snap.x - px, y |-> snap.y - py, minDistSq |-> snap.distSq]
        ELSE acc

\* for (const selObj of selection) for (const target of unselected): snapP1, then snapP2
RECURSIVE moveLoop(_, _, _, _, _, _, _, _)
moveLoop(acc, dx, dy, sel, unselected, i, j, sc) ==
    IF i > Len(sel) THEN acc
    ELSE IF j > Len(unselected) THEN moveLoop(acc, dx, dy, sel, unselected, i + 1, 1, sc)
    ELSE moveLoop(moveEndpoint(moveEndpoint(acc, sel[i].x1 + dx, sel[i].y1 + dy,
                                            unselected[j], sc),
                               sel[i].x2 + dx, sel[i].y2 + dy, unselected[j], sc),
                  dx, dy, sel, unselected, i, j + 1, sc)

\* getSelectionBounds(selection), centres in half units; NULL for an empty selection
getSelectionBounds(sel) ==
    IF Len(sel) = 0 THEN NULL
    ELSE LET xs == {sel[k].x1 : k \in 1..Len(sel)} \cup {sel[k].x2 : k \in 1..Len(sel)}
             ys == {sel[k].y1 : k \in 1..Len(sel)} \cup {sel[k].y2 : k \in 1..Len(sel)}
         IN  [left |-> SetMin(xs), right |-> SetMax(xs),
              top |-> SetMin(ys), bottom |-> SetMax(ys),
              centerX2 |-> SetMin(xs) + SetMax(xs), centerY2 |-> SetMin(ys) + SetMax(ys)]

AlignThreshold == 40

\* selection.forEach(sel => target.forEach(t => ...)): pair n of the nine, with the
\* innermost callback (delta in half units)
RECURSIVE alignPairs(_, _, _, _, _)
alignPairs(best, sel3, target3, n, sc) ==
    IF n > 9 THEN best
    ELSE LET delta2 == target3[((n - 1) % 3) + 1] - sel3[((n - 1) \div 3) + 1]
         IN  alignPairs(IF nearerThan(Abs(delta2), best, AlignThreshold, sc)
                        THEN [found |-> TRUE, dist2 |-> Abs(delta2), value2 |-> delta2]
                        ELSE best,
                        sel3, target3, n + 1, sc)

RECURSIVE alignLoop(_, _, _, _, _, _)
alignLoop(best, sel3, axis, targets, k, sc) ==
    IF k > Len(targets) THEN best
    ELSE alignLoop(alignPairs(best, sel3, candidates2(getBounds(targets[k]), axis), 1, sc),
                   sel3, axis, targets, k + 1, sc)

\* [moved.left, moved.centerX, moved.right] or the y values, in half units
movedCandidates2(bounds, axis, d) ==
    [n \in 1..3 |-> candidates2(bounds, axis)[n] + 2 * d]

\* getAlignmentCorrection(selectionBounds, dx, dy, targets, scale), in half units
getAlignmentCorrection(selectionBounds, dx, dy, targets, sc) ==
    IF selectionBounds = NULL \/ Len(targets) = 0 THEN [x2 |-> 0, y2 |-> 0]
    ELSE [x2 |-> alignLoop([found |-> FALSE, dist2 |-> 0, value2 |-> 0],
                           movedCandidates2(selectionBounds, "x", dx), "x", targets, 1, sc).value2,
          y2 |-> alignLoop([found |-> FALSE, dist2 |-> 0, value2 |-> 0],
                           movedCandidates2(selectionBounds, "y", dy), "y", targets, 1, sc).value2]

\* the alignment replaces the endpoint correction on an axis when it is not zero and
\* the endpoint correction is zero or larger
alignmentWins(alignment2, correction) ==
    alignment2 # 0 /\ (correction = 0 \/ Abs(alignment2) < 2 * Abs(correction))

\* objects.filter(obj => !selection.includes(obj))
unselectedOf(sel, objs) ==
    SelectSeq(objs, LAMBDA o : \A k \in 1..Len(sel) : sel[k].id # o.id)

\* the function once `unselected` is known: the endpoint correction, then the alignment
moveSnapAgainst(dx, dy, sel, unselected, sc) ==
    IF Len(unselected) = 0 THEN [x |-> 0, y |-> 0, exact |-> TRUE]
    ELSE LET acc == moveLoop([x |-> 0, y |-> 0, minDistSq |-> -1],
                             dx, dy, sel, unselected, 1, 1, sc)
             alignment == getAlignmentCorrection(getSelectionBounds(sel), dx, dy,
                                                 unselected, sc)
         IN  [x |-> IF alignmentWins(alignment.x2, acc.x) THEN alignment.x2 \div 2 ELSE acc.x,
              y |-> IF alignmentWins(alignment.y2, acc.y) THEN alignment.y2 \div 2 ELSE acc.y,
              exact |-> /\ alignmentWins(alignment.x2, acc.x) => alignment.x2 % 2 = 0
                        /\ alignmentWins(alignment.y2, acc.y) => alignment.y2 % 2 = 0]

\* getMoveSnapCorrection(dx, dy, selection, objects, scale); sel holds the selected objects
getMoveSnapCorrection(dx, dy, sel, objs, sc) ==
    moveSnapAgainst(dx, dy, sel, unselectedOf(sel, objs), sc)

\* every closest point the function computes is a grid point
getMoveSnapCorrectionExact(dx, dy, sel, objs) ==
    \A i \in 1..Len(sel) : \A j \in 1..Len(unselectedOf(sel, objs)) :
        /\ closestPointExact(sel[i].x1 + dx, sel[i].y1 + dy, unselectedOf(sel, objs)[j])
        /\ closestPointExact(sel[i].x2 + dx, sel[i].y2 + dy, unselectedOf(sel, objs)[j])

(***************************************************************************)
(* app.js: hit testing                                                     *)
(***************************************************************************)
HitDistance == 8

\* the distance from (px, py) to the segment is below 8 / scale
pointInObject(px, py, obj, sc) ==
    IF LenSqOf(obj) = 0 \/ ProjNum(px, py, obj) < 0
    THEN DistLtOverScale(DistSq(px, py, obj.x1, obj.y1), HitDistance, sc)
    ELSE IF ProjNum(px, py, obj) > LenSqOf(obj)
    THEN DistLtOverScale(DistSq(px, py, obj.x2, obj.y2), HitDistance, sc)
    ELSE Sq((px - obj.x1) * (obj.y2 - obj.y1) - (py - obj.y1) * (obj.x2 - obj.x1)) * Sq(sc.n)
            < Sq(HitDistance) * Sq(sc.d) * LenSqOf(obj)

HandleSize == 10

getResizeHandle(px, py, obj, sc) ==
    IF DistLtOverScale(DistSq(px, py, obj.x1, obj.y1), HandleSize, sc) THEN "start"
    ELSE IF DistLtOverScale(DistSq(px, py, obj.x2, obj.y2), HandleSize, sc) THEN "end"
    ELSE "null"

\* state.objects.find(obj => pointInObject(x, y, obj)): its index, 0 when undefined
RECURSIVE findHit(_, _, _, _, _)
findHit(objs, x, y, sc, k) ==
    IF k > Len(objs) THEN 0
    ELSE IF pointInObject(x, y, objs[k], sc) THEN k
    ELSE findHit(objs, x, y, sc, k + 1)

(***************************************************************************)
(* app.js: mousedown                                                       *)
(***************************************************************************)
RECURSIVE Gcd(_, _)
Gcd(a, b) == IF b = 0 THEN a ELSE Gcd(b, a % b)

\* Math.atan2(dy, dx) as the direction it is the angle of; atan2(0, 0) is 0
atan2(dy, dx) ==
    IF dx = 0 /\ dy = 0 THEN [dx |-> 1, dy |-> 0]
    ELSE [dx |-> dx \div Gcd(Abs(dx), Abs(dy)), dy |-> dy \div Gcd(Abs(dx), Abs(dy))]

\* the selected objects, in selection order
selectedObjects(st) == [k \in 1..Len(st.selection) |-> ObjOf(st, st.selection[k])]

\* start rotation about the centre c2 (half units) of the bounding box of the selection;
\* state.initialObjectStates holds each selected object with its endpoints relative to c2
startRotation(st, x, y) ==
    LET sel == selectedObjects(st)
        c2 == [x |-> getSelectionBounds(sel).centerX2, y |-> getSelectionBounds(sel).centerY2]
    IN  [st EXCEPT !.isRotating = TRUE,
                   !.rotationCenter = c2,
                   !.rotationStartAngle = atan2(2 * y - c2.y, 2 * x - c2.x),
                   !.initialObjectStates =
                       [k \in 1..Len(sel) |->
                           [obj |-> sel[k].id,
                            p1 |-> [x |-> 2 * sel[k].x1 - c2.x, y |-> 2 * sel[k].y1 - c2.y],
                            p2 |-> [x |-> 2 * sel[k].x2 - c2.x, y |-> 2 * sel[k].y2 - c2.y]]]]

startPotentialMove(st, x, y) ==
    [st EXCEPT !.isPotentialMove = TRUE, !.lastMousePos = Pt(x, y), !.dragStart = Pt(x, y)]

\* the selection logic once hit (an identity, 0 when nothing is hit) is known
selectAt(st, x, y, shiftKey, ctrlKey, hit) ==
    IF hit # 0
    THEN IF hit \in SeqToSet(st.selection)
         THEN IF shiftKey THEN Returned(startRotation(st, x, y), "down.rotate", {}, TRUE)
              ELSE IF ~ ctrlKey THEN Returned(startPotentialMove(st, x, y), "down.move", {}, TRUE)
              ELSE Returned([st EXCEPT !.selection = SelectSeq(@, LAMBDA i : i # hit)],
                            "down.deselect", {}, TRUE)
         ELSE IF ctrlKey
              THEN Returned([st EXCEPT !.selection = Append(@, hit)], "down.add", {}, TRUE)
              ELSE IF shiftKey
                   THEN Returned(startRotation([st EXCEPT !.selection = << hit >>], x, y),
                                 "down.rotate", {}, TRUE)
                   ELSE Returned(startPotentialMove([st EXCEPT !.selection = << hit >>], x, y),
                                 "down.move", {}, TRUE)
    ELSE Returned([st EXCEPT !.selection = IF ctrlKey THEN @ ELSE << >>,
                             !.isBoxSelecting = TRUE,
                             !.boxSelectionStart = Pt(x, y),
                             !.boxSelectionEnd = Pt(x, y)],
                  "down.box", {}, TRUE)

\* the handle of the only selected object under the pointer, "null" otherwise
handleUnder(st, x, y) ==
    IF Len(st.selection) = 1
    THEN getResizeHandle(x, y, ObjOf(st, st.selection[1]), st.scale)
    ELSE "null"

mousedown(st, x, y, shiftKey, ctrlKey) ==
    IF st.mode # "null"
    THEN Returned([st EXCEPT !.isDragging = TRUE, !.dragStart = Pt(x, y)], "down.draw", {}, TRUE)
    ELSE IF handleUnder(st, x, y) # "null"
    THEN Returned([st EXCEPT !.isResizing = TRUE, !.resizeHandle = handleUnder(st, x, y),
                             !.dragStart = Pt(x, y)],
                  "down.resize", {}, TRUE)
    ELSE LET k == findHit(st.objects, x, y, st.scale, 1)
         IN  selectAt(st, x, y, shiftKey, ctrlKey, IF k = 0 THEN 0 ELSE st.objects[k].id)

(***************************************************************************)
(* app.js: mousemove                                                       *)
(***************************************************************************)
\* cos and sin of (currentAngle - rotationStartAngle) as dot / norm and cross / norm
deltaAngle(current, start) ==
    [dot   |-> start.dx * current.dx + start.dy * current.dy,
     cross |-> start.dx * current.dy - start.dy * current.dx,
     normSq |-> (Sq(start.dx) + Sq(start.dy)) * (Sq(current.dx) + Sq(current.dy))]

\* c + (p.x * cos - p.y * sin, p.x * sin + p.y * cos), in half units
rotatedPoint2(c2, p, delta, norm) ==
    [x |-> c2.x + (p.x * delta.dot - p.y * delta.cross) \div norm,
     y |-> c2.y + (p.x * delta.cross + p.y * delta.dot) \div norm]

rotatedPointExact(c2, p, delta, norm) ==
    /\ (p.x * delta.dot - p.y * delta.cross) % norm = 0
    /\ (p.x * delta.cross + p.y * delta.dot) % norm = 0
    /\ rotatedPoint2(c2, p, delta, norm).x % 2 = 0
    /\ rotatedPoint2(c2, p, delta, norm).y % 2 = 0

\* state.objects after state.initialObjectStates.forEach(...): the objects the items
\* refer to are rotated, whether or not they are still selected
rotateItems(objs, items, c2, delta, norm) ==
    [k \in 1..Len(objs) |->
        IF \E n \in 1..Len(items) : items[n].obj = objs[k].id
        THEN LET item == items[CHOOSE n \in 1..Len(items) : items[n].obj = objs[k].id]
             IN  [objs[k] EXCEPT !.x1 = rotatedPoint2(c2, item.p1, delta, norm).x \div 2,
                                 !.y1 = rotatedPoint2(c2, item.p1, delta, norm).y \div 2,
                                 !.x2 = rotatedPoint2(c2, item.p2, delta, norm).x \div 2,
                                 !.y2 = rotatedPoint2(c2, item.p2, delta, norm).y \div 2]
        ELSE objs[k]]

\* the rotation by delta; exact when cos and sin are rational and every rotated
\* endpoint is a grid point
rotateBy(st, delta) ==
    Returned([st EXCEPT !.objects = rotateItems(@, st.initialObjectStates,
                                                st.rotationCenter, delta, ISqrt(delta.normSq)),
                        !.detached = rotateItems(@, st.initialObjectStates,
                                                 st.rotationCenter, delta, ISqrt(delta.normSq))],
             "move.rotate",
             {st.initialObjectStates[n].obj : n \in 1..Len(st.initialObjectStates)}
                 \cap Ids(st.objects),
             /\ Sq(ISqrt(delta.normSq)) = delta.normSq
             /\ \A n \in 1..Len(st.initialObjectStates) :
                 /\ rotatedPointExact(st.rotationCenter, st.initialObjectStates[n].p1,
                                      delta, ISqrt(delta.normSq))
                 /\ rotatedPointExact(st.rotationCenter, st.initialObjectStates[n].p2,
                                      delta, ISqrt(delta.normSq)))

\* the isRotating branch
rotateSelection(st, x, y) ==
    IF Len(st.initialObjectStates) > 0
    THEN rotateBy(st, deltaAngle(atan2(2 * y - st.rotationCenter.y, 2 * x - st.rotationCenter.x),
                                 st.rotationStartAngle))
    ELSE Returned(st, "move.rotate", {}, TRUE)

\* obj.x1 += dx; obj.y1 += dy; obj.x2 += dx; obj.y2 += dy for the selected objects,
\* dx and dy including the snap correction; lastMousePos follows
movedBy(st, dx, dy, correction) ==
    Returned([st EXCEPT !.objects =
                 [k \in 1..Len(@) |->
                     IF @[k].id \in SeqToSet(st.selection)
                     THEN [@[k] EXCEPT !.x1 = @ + dx + correction.x,
                                       !.y1 = @ + dy + correction.y,
                                       !.x2 = @ + dx + correction.x,
                                       !.y2 = @ + dy + correction.y]
                     ELSE @[k]],
                        !.detached =
                 [k \in 1..Len(@) |->
                     IF @[k].id \in SeqToSet(st.selection)
                     THEN [@[k] EXCEPT !.x1 = @ + dx + correction.x,
                                       !.y1 = @ + dy + correction.y,
                                       !.x2 = @ + dx + correction.x,
                                       !.y2 = @ + dy + correction.y]
                     ELSE @[k]],
                        !.lastMousePos = Pt(@.x + dx + correction.x, @.y + dy + correction.y)],
             "move.move", SeqToSet(st.selection), correction.exact)

\* the isMoving branch; reading state.lastMousePos.x when lastMousePos is null throws
moveSelection(st, x, y, isSnapDisabled) ==
    IF st.lastMousePos = NULL THEN Returned(st, "move.throw", {}, TRUE)
    ELSE IF isSnapDisabled
    THEN movedBy(st, x - st.lastMousePos.x, y - st.lastMousePos.y,
                 [x |-> 0, y |-> 0, exact |-> TRUE])
    ELSE movedBy(st, x - st.lastMousePos.x, y - st.lastMousePos.y,
                 [getMoveSnapCorrection(x - st.lastMousePos.x, y - st.lastMousePos.y,
                                        selectedObjects(st), st.objects, st.scale)
                  EXCEPT !.exact = @ /\ getMoveSnapCorrectionExact(
                                            x - st.lastMousePos.x, y - st.lastMousePos.y,
                                            selectedObjects(st), st.objects)])

\* the end of obj that stays while the handle is dragged
fixedPoint(obj, handle) ==
    IF handle = "start" THEN Pt(obj.x2, obj.y2) ELSE Pt(obj.x1, obj.y1)

\* the pointer after object snap or angle snap (unless snapping is disabled)
resizeTarget(st, obj, x, y, isSnapDisabled) ==
    IF isSnapDisabled THEN Pt(x, y)
    ELSE snapOrAngle(snapToObjects(x, y, st.objects, st.scale, {obj.id}),
                     fixedPoint(obj, st.resizeHandle).x, fixedPoint(obj, st.resizeHandle).y, x, y)

\* the dragged end of obj is put at p after the axis snaps snapX and snapY
resizedTo(st, obj, snapX, snapY, p, exact) ==
    LET x == withAxisSnap(p.x, snapX)
        y == withAxisSnap(p.y, snapY)
    IN  Returned([st EXCEPT !.objects =
                     [k \in 1..Len(@) |->
                         IF @[k].id # obj.id THEN @[k]
                         ELSE IF st.resizeHandle = "start" THEN [obj EXCEPT !.x1 = x, !.y1 = y]
                         ELSE IF st.resizeHandle = "end" THEN [obj EXCEPT !.x2 = x, !.y2 = y]
                         ELSE obj],
                            !.detached =
                     [k \in 1..Len(@) |->
                         IF @[k].id # obj.id THEN @[k]
                         ELSE IF st.resizeHandle = "start" THEN [obj EXCEPT !.x1 = x, !.y1 = y]
                         ELSE IF st.resizeHandle = "end" THEN [obj EXCEPT !.x2 = x, !.y2 = y]
                         ELSE obj]],
                 "move.resize", {obj.id},
                 exact /\ axisSnapExact(snapX) /\ axisSnapExact(snapY))

\* the isResizing branch once the pointer p after object or angle snap is known
resizeToward(st, obj, p, exact) ==
    resizedTo(st, obj,
              getAxisSnap(p.x, "x", st.objects, {obj.id}, st.scale),
              getAxisSnap(p.y, "y", st.objects, {obj.id}, st.scale), p, exact)

\* the isResizing branch
resizeSelected(st, obj, x, y, isSnapDisabled) ==
    resizeToward(st, obj, resizeTarget(st, obj, x, y, isSnapDisabled),
                 isSnapDisabled \/
                     /\ snapToObjectsExact(x, y, st.objects, {obj.id})
                     /\ snapOrAngleExact(snapToObjects(x, y, st.objects, st.scale, {obj.id}),
                                         fixedPoint(obj, st.resizeHandle).x,
                                         fixedPoint(obj, st.resizeHandle).y, x, y))

PotentialMoveThreshold == 5

\* the branches after the isPotentialMove test
continueGesture(st, x, y, isSnapDisabled) ==
    IF st.isMoving THEN moveSelection(st, x, y, isSnapDisabled)
    ELSE IF st.isBoxSelecting
    THEN Returned([st EXCEPT !.boxSelectionEnd = Pt(x, y)], "move.box", {}, TRUE)
    ELSE IF st.isResizing /\ Len(st.selection) = 1
    THEN resizeSelected(st, ObjOf(st, st.selection[1]), x, y, isSnapDisabled)
    ELSE IF ~ st.isDragging THEN Returned(st, "move.none", {}, TRUE)
    ELSE Returned(st, "move.preview", {}, TRUE)

\* the cursor update returns from the handler when no gesture flag is set and the
\* pointer is over a handle of the only selected object; then the rotation; then the
\* isPotentialMove test: the move starts once the pointer is 5 / scale away
mousemove(st, x, y, isSnapDisabled) ==
    IF /\ ~ st.isDragging /\ ~ st.isResizing /\ ~ st.isBoxSelecting
       /\ ~ st.isMoving /\ ~ st.isRotating
       /\ handleUnder(st, x, y) # "null"
    THEN Returned(st, "move.hover", {}, TRUE)
    ELSE IF st.isRotating THEN rotateSelection(st, x, y)
    ELSE continueGesture(
             IF st.isPotentialMove
                /\ DistGtOverScale(DistSq(x, y, st.dragStart.x, st.dragStart.y),
                                   PotentialMoveThreshold, st.scale)
             THEN [st EXCEPT !.isMoving = TRUE, !.isPotentialMove = FALSE]
             ELSE st,
             x, y, isSnapDisabled)

(***************************************************************************)
(* app.js: mouseup                                                         *)
(***************************************************************************)
\* state.objects.filter(...) of the box selection, as identities: both endpoints of
\* the object are inside the box spanned by corners a and b
boxSelected(st) ==
    LET a == st.boxSelectionStart
        b == st.boxSelectionEnd
        inside == SelectSeq(st.objects, LAMBDA obj :
                      /\ obj.x1 >= Min2(a.x, b.x) /\ obj.x1 <= Max2(a.x, b.x)
                      /\ obj.y1 >= Min2(a.y, b.y) /\ obj.y1 <= Max2(a.y, b.y)
                      /\ obj.x2 >= Min2(a.x, b.x) /\ obj.x2 <= Max2(a.x, b.x)
                      /\ obj.y2 >= Min2(a.y, b.y) /\ obj.y2 <= Max2(a.y, b.y))
    IN  [k \in 1..Len(inside) |-> inside[k].id]

\* selected.forEach(obj => { if (!state.selection.includes(obj)) state.selection.push(obj) })
finishBoxSelection(st, ctrlKey) ==
    [st EXCEPT !.selection = IF ctrlKey
                             THEN @ \o SelectSeq(boxSelected(st),
                                                 LAMBDA i : i \notin SeqToSet(st.selection))
                             ELSE boxSelected(st),
               !.isBoxSelecting = FALSE,
               !.boxSelectionStart = NULL,
               !.boxSelectionEnd = NULL]

\* state.objects after checkAndSplitObjects(activeObj)
splitAround(st, activeObj) ==
    [st EXCEPT !.objects =
        checkAndSplitObjects(st.objects, activeObj,
                             Ids(st.objects) \cup SeqToSet(st.selection) \cup HeldIds).objects]

\* if (state.selection.length === 1) checkAndSplitObjects(state.selection[0])
splitAroundSelected(st) ==
    IF Len(st.selection) = 1 THEN splitAround(st, ObjOf(st, st.selection[1])) ELSE st

finishMove(st) ==
    [saveToHistory(splitAroundSelected(mergeWalls(st)))
        EXCEPT !.isMoving = FALSE, !.lastMousePos = NULL]

\* TYPE_DEFAULTS[type] || TYPE_DEFAULTS.wall
getTypeDefaults(type) ==
    IF type = "door" THEN [width |-> 2, height |-> 70, color |-> "#ffd700"]
    ELSE IF type = "window" THEN [width |-> 2, height |-> 50, color |-> "#87cefa"]
    ELSE IF type = "furniture" THEN [width |-> 3, height |-> 45, color |-> "#ff69b4"]
    ELSE [width |-> 3, height |-> 80, color |-> "#00ffcc"]

\* the end point of the new object
drawnEnd(st, x, y, ctrlKey) ==
    IF ctrlKey THEN Pt(x, y)
    ELSE snapOrAngle(snapToObjects(x, y, st.objects, st.scale, {}),
                     st.dragStart.x, st.dragStart.y, x, y)

\* push newObj (the object literal of the create branch; a null subtype reads "none"),
\* checkAndSplitObjects(newObj), saveToHistory, end of the drag
created(st, end, typeDefaults, newId) ==
    LET newObj == [id |-> newId, type |-> st.mode,
                   subtype |-> IF st.mode = "door" THEN "single" ELSE "none",
                   isOpen |-> FALSE,
                   x1 |-> st.dragStart.x, y1 |-> st.dragStart.y, x2 |-> end.x, y2 |-> end.y,
                   width |-> typeDefaults.width, height |-> typeDefaults.height,
                   color |-> typeDefaults.color]
    IN  [saveToHistory(splitAround([st EXCEPT !.objects = Append(@, newObj)], newObj))
            EXCEPT !.isDragging = FALSE, !.dragStart = NULL]

MinLength == 10

\* the handler from `if (!state.isDragging) return` on
finishDrag(st, x, y, ctrlKey) ==
    IF ~ st.isDragging THEN Returned(st, "up.none", {}, TRUE)
    ELSE IF DistSq(x, y, st.dragStart.x, st.dragStart.y) < Sq(MinLength)
    THEN Returned([st EXCEPT !.isDragging = FALSE, !.dragStart = NULL], "up.discard", {}, TRUE)
    ELSE Returned(created(st, drawnEnd(st, x, y, ctrlKey), getTypeDefaults(st.mode),
                          FreshId(Ids(st.objects) \cup SeqToSet(st.selection) \cup HeldIds)),
                  "create",
                  {FreshId(Ids(st.objects) \cup SeqToSet(st.selection) \cup HeldIds)},
                  ctrlKey \/
                      /\ snapToObjectsExact(x, y, st.objects, {})
                      /\ snapOrAngleExact(snapToObjects(x, y, st.objects, st.scale, {}),
                                          st.dragStart.x, st.dragStart.y, x, y))

mouseup(st, x, y, ctrlKey) ==
    IF st.isBoxSelecting THEN Returned(finishBoxSelection(st, ctrlKey), "up.box", {}, TRUE)
    ELSE IF st.isRotating
    THEN Returned([saveToHistory(st) EXCEPT !.isRotating = FALSE,
                                            !.initialObjectStates = << >>,
                                            !.rotationCenter = NULL],
                  "rotateEnd", HeldIds \cap Ids(st.objects), TRUE)
    ELSE IF st.isMoving
    THEN Returned(finishMove(st), "moveEnd", SeqToSet(finishMove(st).selection), TRUE)
    ELSE IF st.isResizing
    THEN Returned([saveToHistory([st EXCEPT !.isPotentialMove = FALSE])
                       EXCEPT !.isResizing = FALSE, !.resizeHandle = "null"],
                  "resizeEnd", SeqToSet(st.selection), TRUE)
    ELSE finishDrag([st EXCEPT !.isPotentialMove = FALSE], x, y, ctrlKey)

(***************************************************************************)
(* The editor as a state machine: one action per event                     *)
(***************************************************************************)
\* pointer positions (world coordinates) of the events
Points == { Pt(0, 0), Pt(50, 0), Pt(60, 0), Pt(100, 0) }

\* the tool buttons pressed: select, wall, door
Modes == { "null", "wall", "door" }

\* the floorplan files opened: a saved plan of two walls, none near the other
Files == { << Seg("wall", 0, 0, 100, 0, 3, 80, "#00ffcc"),
              Seg("wall", 40, 30, 40, 60, 3, 80, "#00ffcc") >> }

\* events delivered in one session
MaxEvents == 6

\* files imported in one session
MaxImports == 1

\* the handlers that complete an edit
EditEnds == { "create", "moveEnd", "resizeEnd", "rotateEnd", "delete" }

Init ==
    /\ objects = << >>
    /\ selection = << >>
    /\ scale = [n |-> 1, d |-> 1]
    /\ mode = "null"
    /\ isDragging = FALSE
    /\ dragStart = NULL
    /\ isResizing = FALSE
    /\ resizeHandle = "null"
    /\ isMoving = FALSE
    /\ isPotentialMove = FALSE
    /\ lastMousePos = NULL
    /\ isRotating = FALSE
    /\ rotationCenter = NULL
    /\ rotationStartAngle = [dx |-> 1, dy |-> 0]
    /\ initialObjectStates = << >>
    /\ isBoxSelecting = FALSE
    /\ boxSelectionStart = NULL
    /\ boxSelectionEnd = NULL
    /\ history = << >>
    /\ historyIndex = -1
    /\ detached = << >>
    /\ pressed = FALSE
    /\ nEvents = 0
    /\ nImports = 0
    /\ arg = NULL
    /\ out = NULL
    /\ origin = << >>
    /\ pc = "idle"
    /\ prevObjects = << >>
    /\ prevSelection = << >>
    /\ callObjects = << >>
    /\ callSelection = << >>
    /\ active = 0
    /\ touched = {}
    /\ ret = FALSE
    /\ nMerges = 0
    /\ priorMerges = 0
    /\ lastPair = << >>

\* what the stack holds once the handler has returned: an element of a snapshot that
\* is an object of the editor (and not a copy of one) has the fields of that object
snapshotsSeen(snapshots, live) ==
    [i \in 1..Len(snapshots) |->
        [k \in 1..Len(snapshots[i]) |->
            IF snapshots[i][k].id # 0 /\ \E n \in 1..Len(live) : live[n].id = snapshots[i][k].id
            THEN live[CHOOSE n \in 1..Len(live) : live[n].id = snapshots[i][k].id]
            ELSE snapshots[i][k]]]

\* the handler returns r: the state becomes r.state
Handled(r) ==
    /\ r.exact
    /\ nEvents < MaxEvents
    /\ nEvents' = nEvents + 1
    /\ nImports' = IF r.pc = "import" THEN nImports + 1 ELSE nImports
    /\ mode' = r.state.mode
    /\ objects' = r.state.objects
    /\ selection' = r.state.selection
    /\ isDragging' = r.state.isDragging
    /\ dragStart' = r.state.dragStart
    /\ isResizing' = r.state.isResizing
    /\ resizeHandle' = r.state.resizeHandle
    /\ isMoving' = r.state.isMoving
    /\ isPotentialMove' = r.state.isPotentialMove
    /\ lastMousePos' = r.state.lastMousePos
    /\ isRotating' = r.state.isRotating
    /\ rotationCenter' = r.state.rotationCenter
    /\ rotationStartAngle' = r.state.rotationStartAngle
    /\ initialObjectStates' = r.state.initialObjectStates
    /\ isBoxSelecting' = r.state.isBoxSelecting
    /\ boxSelectionStart' = r.state.boxSelectionStart
    /\ boxSelectionEnd' = r.state.boxSelectionEnd
    /\ history' = snapshotsSeen(r.state.history, r.state.objects \o r.state.detached)
    /\ historyIndex' = r.state.historyIndex
    /\ detached' = SelectSeq(r.state.detached,
                             LAMBDA o : o.id \in SeqToSet(r.state.selection))
    /\ scale' = r.state.scale
    /\ pc' = IF r.pc \in EditEnds THEN r.pc ELSE "event"
    /\ touched' = IF r.pc \in EditEnds THEN r.touched ELSE {}
    /\ UNCHANGED <<prevObjects, prevSelection, passVars, snapVars>>

SetMode ==
    /\ \E m \in Modes : Handled(Returned(setMode(State, m), "setMode", {}, TRUE))
    /\ UNCHANGED pressed

\* a button goes down over the canvas while none is held
MouseDown ==
    /\ ~ pressed
    /\ pressed' = TRUE
    /\ \E p \in Points, shiftKey \in BOOLEAN, ctrlKey \in BOOLEAN :
        \E r \in {mousedown(State, p.x, p.y, shiftKey, ctrlKey)} : Handled(r)

MouseMove ==
    /\ \E p \in Points, ctrlKey \in BOOLEAN :
        \E r \in {mousemove(State, p.x, p.y, ctrlKey)} : Handled(r)
    /\ UNCHANGED pressed

\* the held button is released
MouseUp ==
    /\ pressed
    /\ pressed' = FALSE
    /\ \E p \in Points, ctrlKey \in BOOLEAN :
        \E r \in {mouseup(State, p.x, p.y, ctrlKey)} : Handled(r)

DeleteSelected ==
    /\ Len(selection) > 0
    /\ Handled(Returned(deleteSelected(State), "delete", {}, TRUE))
    /\ UNCHANGED pressed

Escape ==
    /\ Handled(Returned(escapeKey(State), "escape", {}, TRUE))
    /\ UNCHANGED pressed

Undo ==
    /\ \E r \in {undo(State)} : r.ret /\ Handled(Returned(r.state, "undo", {}, TRUE))
    /\ UNCHANGED pressed

Redo ==
    /\ \E r \in {redo(State)} : r.ret /\ Handled(Returned(r.state, "redo", {}, TRUE))
    /\ UNCHANGED pressed

\* a file chosen in the import dialog has been read
Import ==
    /\ nImports < MaxImports
    /\ \E file \in Files : Handled(Returned(handleImport(State, file), "import", {}, TRUE))
    /\ UNCHANGED pressed

Next ==
    \/ SetMode \/ MouseDown \/ MouseMove \/ MouseUp
    \/ DeleteSelected \/ Escape \/ Undo \/ Redo \/ Import

Spec == Init /\ [][Next]_vars

(***************************************************************************)
(* Vocabulary of the properties                                            *)
(***************************************************************************)
InMergeCall == pc \in {"merging", "merged", "remerging", "remerged"}

MergeReturned == pc \in {"merged", "remerged"}

\* the last step was a loop iteration that fused lastPair[1] and lastPair[2]
JustMerged == pc \in {"merging", "remerging"} /\ lastPair # << >>

LastOf(objs) == objs[Len(objs)]

EndpointsOf(seg) == { Pt(seg.x1, seg.y1), Pt(seg.x2, seg.y2) }

\* least endpoint-to-endpoint distance (squared) of two segments
GapDistSq(segA, segB) ==
    SetMin({ DistSq(p.x, p.y, q.x, q.y) : p \in EndpointsOf(segA), q \in EndpointsOf(segB) })

\* dist <= 150 / scale
WithinMergeDistance(distSq, sc) == distSq * sc.n * sc.n <= 22500 * sc.d * sc.d

\* (px, py) lies on the line through seg
OnAxis(px, py, seg) ==
    (px - seg.x1) * (seg.y2 - seg.y1) - (py - seg.y1) * (seg.x2 - seg.x1) = 0

SameAttributes(a, b) ==
    /\ a.type = b.type /\ a.width = b.width /\ a.height = b.height /\ a.color = b.color

\* some endpoint of obj is less than 2 units from an endpoint of gap
EndpointNearGap(gap, obj) ==
    \E p \in EndpointsOf(obj) :
        \/ DistSq(p.x, p.y, gap.x1, gap.y1) < 4
        \/ DistSq(p.x, p.y, gap.x2, gap.y2) < 4

\* obj is collinear with gap (both endpoints less than 6 from its line) and its
\* projection on gap meets [0, 1] with slack 0.001
OverlapsGap(gap, obj) ==
    LET dx == gap.x2 - gap.x1
        dy == gap.y2 - gap.y1
        lenSq == dx * dx + dy * dy
        off(p) == (p.x - gap.x1) * dy - (p.y - gap.y1) * dx
        t(p) == (p.x - gap.x1) * dx + (p.y - gap.y1) * dy
    IN  /\ lenSq > 0
        /\ \A p \in EndpointsOf(obj) : off(p) * off(p) < 36 * lenSq
        /\ \E p \in EndpointsOf(obj) : 1000 * t(p) >= 0 - lenSq
        /\ \E p \in EndpointsOf(obj) : 1000 * t(p) <= 1001 * lenSq

\* both endpoints of obj project between the two endpoints of gap
InsideGap(gap, obj) ==
    \A p \in EndpointsOf(obj) :
        LET t == (p.x - gap.x1) * (gap.x2 - gap.x1) + (p.y - gap.y1) * (gap.y2 - gap.y1)
        IN  t >= 0 /\ t <= Sq(gap.x2 - gap.x1) + Sq(gap.y2 - gap.y1)

\* the merge conditions for the ordered pair (w1, w2) in the collection objs
MergeConditions(w1, w2, objs, sc) ==
    /\ areSegmentsCollinear(w1, w2)
    /\ WithinMergeDistance(GapDistSq(w1, w2), sc)
    /\ ~ \E k \in 1..Len(objs) :
            /\ objs[k].id \notin {w1.id, w2.id}
            /\ \/ EndpointNearGap(gapSegmentOf(getClosestEndpoints(w1, w2)), objs[k])
               \/ OverlapsGap(gapSegmentOf(getClosestEndpoints(w1, w2)), objs[k])

HasCoords(seg, x1, y1, x2, y2) == seg.x1 = x1 /\ seg.y1 = y1 /\ seg.x2 = x2 /\ seg.y2 = y2

SomeWith(objs, type, x1, y1, x2, y2) ==
    \E k \in 1..Len(objs) : objs[k].type = type /\ HasCoords(objs[k], x1, y1, x2, y2)

\* every point the passes compute lies on the integer grid (the divisions are exact)
OnGrid ==
    /\ JustMerged =>
         \A n \in CombinedNums(lastPair[1], lastPair[2]) : AlongExact(lastPair[1], n)
    /\ pc = "split" =>
         \A k \in 1..Len(callObjects) : \A a \in 1..Len(callObjects) :
             (callObjects[a].id = active /\ splitsOther(callObjects[k], callObjects[a])) =>
                 /\ AlongExact(callObjects[k], tStartNum(callObjects[k], callObjects[a]))
                 /\ AlongExact(callObjects[k], tEndNum(callObjects[k], callObjects[a]))

(***************************************************************************)
(* C1: checkAndMergeWalls terminates: every merge removes exactly two      *)
(* walls and inserts exactly one, so the number of walls (and of objects)  *)
(* has dropped by exactly the number of merges made so far, and a call     *)
(* makes at most (initial wall count - 1) merges.                          *)
(***************************************************************************)
C1_MergeDecreasesWalls ==
    InMergeCall =>
        /\ Len(wallsOf(objects)) + nMerges = Len(wallsOf(callObjects))
        /\ Len(objects) + nMerges = Len(callObjects)
        /\ nMerges <= Max2(0, Len(wallsOf(callObjects)) - 1)
        /\ JustMerged =>
            /\ lastPair[1].id # lastPair[2].id
            /\ Ids(prevObjects) \ Ids(objects) = {lastPair[1].id, lastPair[2].id}
            /\ Cardinality(Ids(objects) \ Ids(prevObjects)) = 1
            /\ Len(wallsOf(objects)) = Len(wallsOf(prevObjects)) - 1

\* a call over three walls has returned after two merges
C1_Witness ==
    /\ pc = "merged"
    /\ nMerges = 2
    /\ Len(wallsOf(callObjects)) = 3

C3_MergeResult ==
    JustMerged =>
        LET w1 == lastPair[1]
            w2 == lastPair[2]
            m == LastOf(objects)
            nums == { ProjNum(p.x, p.y, w1) : p \in EndpointsOf(w1) \cup EndpointsOf(w2) }
        IN  /\ objects = Append(SelectSeq(prevObjects, LAMBDA o : o # w1 /\ o # w2), m)
            /\ Len(objects) = Len(prevObjects) - 1
            /\ m.id \notin Ids(prevObjects)
            /\ SameAttributes(m, w1)
            /\ OnAxis(m.x1, m.y1, w1) /\ OnAxis(m.x2, m.y2, w1)
            /\ ProjNum(m.x1, m.y1, w1) = SetMin(nums)
            /\ ProjNum(m.x2, m.y2, w1) = SetMax(nums)
            /\ (HasCoords(w1, 0, 0, 50, 0) /\ HasCoords(w2, 52, 0, 100, 0))
                   => HasCoords(m, 0, 0, 100, 0)

\* the reversed, offset wall (100,3)-(60,3) has absorbed (0,0)-(50,0)
C3_Witness ==
    /\ JustMerged
    /\ HasCoords(lastPair[1], 100, 3, 60, 3)
    /\ HasCoords(lastPair[2], 0, 0, 50, 0)
    /\ HasCoords(LastOf(objects), 100, 3, 0, 3)
    /\ LastOf(objects).width = 4

(***************************************************************************)
(* C4: no pair of walls is merged while an object other than the two has   *)
(* an endpoint within 2 units (distance < 2, the code's touch tolerance)   *)
(* of an endpoint of the gap segment between their closest endpoints; the  *)
(* walls (0,0)-(50,0), (52,0)-(100,0) with a door ending at (51,0) are     *)
(* left as they are.                                                       *)
(***************************************************************************)
C4_TouchBlocksMerge ==
    /\ JustMerged =>
        ~ \E k \in 1..Len(prevObjects) :
            /\ prevObjects[k].id \notin {lastPair[1].id, lastPair[2].id}
            /\ EndpointNearGap(gapSegmentOf(getClosestEndpoints(lastPair[1], lastPair[2])),
                               prevObjects[k])
    /\ ( /\ MergeReturned
         /\ Len(callObjects) = 3
         /\ SomeWith(callObjects, "wall", 0, 0, 50, 0)
         /\ SomeWith(callObjects, "wall", 52, 0, 100, 0)
         /\ SomeWith(callObjects, "door", 51, 0, 51, 30) )
       => objects = callObjects

\* the two walls and the door, after checkAndMergeWalls has returned
C4_Witness ==
    /\ pc = "merged"
    /\ Len(callObjects) = 3
    /\ SomeWith(objects, "wall", 0, 0, 50, 0)
    /\ SomeWith(objects, "wall", 52, 0, 100, 0)
    /\ SomeWith(objects, "door", 51, 0, 51, 30)

\* an endpoint at distance exactly 2 from the gap does not block: the furniture
\* ending at (48,0) leaves (0,0)-(50,0) and (52,0)-(100,0) free to merge
C4_ExactlyTwoDoesNotBlock ==
    /\ JustMerged
    /\ HasCoords(lastPair[1], 0, 0, 50, 0)
    /\ HasCoords(lastPair[2], 52, 0, 100, 0)
    /\ SomeWith(prevObjects, "furniture", 10, 3, 48, 0)

(***************************************************************************)
(* C5 as stated: when a third wall lies in the gap of two candidate walls, *)
(* collinear with and overlapping the gap segment, no endpoint within 2 of *)
(* a gap endpoint, then after checkAndMergeWalls the two candidates have   *)
(* not been fused into one segment.                                        *)
(***************************************************************************)
\* w3 lies in the gap of the candidate pair (w1, w2) without touching its endpoints
ThirdWallInGap(w1, w2, w3, sc) ==
    /\ w3.type = "wall"
    /\ w3.id \notin {w1.id, w2.id}
    /\ areSegmentsCollinear(w1, w2)
    /\ WithinMergeDistance(GapDistSq(w1, w2), sc)
    /\ ~ EndpointNearGap(gapSegmentOf(getClosestEndpoints(w1, w2)), w3)
    /\ OverlapsGap(gapSegmentOf(getClosestEndpoints(w1, w2)), w3)
    /\ InsideGap(gapSegmentOf(getClosestEndpoints(w1, w2)), w3)

\* seg lies on m: collinear with it and projected inside it
CoveredBy(seg, m) ==
    /\ areSegmentsCollinear(m, seg)
    /\ \A p \in EndpointsOf(seg) :
        ProjNum(p.x, p.y, m) >= 0 /\ ProjNum(p.x, p.y, m) <= LenSqOf(m)

\* one segment made by the call covers both w1 and w2
FusedIntoOne(w1, w2) ==
    \E k \in 1..Len(objects) :
        /\ objects[k] \notin SeqToSet(callObjects)
        /\ CoveredBy(w1, objects[k])
        /\ CoveredBy(w2, objects[k])

C5_Original ==
    pc = "merged" =>
        \A i \in 1..Len(wallsOf(callObjects)) : \A j \in (i + 1)..Len(wallsOf(callObjects)) :
            \A k \in 1..Len(callObjects) :
                ThirdWallInGap(wallsOf(callObjects)[i], wallsOf(callObjects)[j], callObjects[k], scale)
                    => ~ FusedIntoOne(wallsOf(callObjects)[i], wallsOf(callObjects)[j])

(***************************************************************************)
(* C5 amended: while such a third wall is in the collection, no merge step *)
(* takes the two candidate walls as its pair (they can still end up in one *)
(* segment when the third wall itself merges with one of them first).      *)
(***************************************************************************)
C5_OverlapBlocksPair ==
    JustMerged =>
        ~ \E k \in 1..Len(prevObjects) :
            ThirdWallInGap(lastPair[1], lastPair[2], prevObjects[k], scale)

\* the scan has passed over a first pair that only the overlapping third wall
\* blocks, and merged a later pair
C5_Witness ==
    /\ JustMerged
    /\ Len(wallsOf(prevObjects)) = 3
    /\ ThirdWallInGap(wallsOf(prevObjects)[1], wallsOf(prevObjects)[2], wallsOf(prevObjects)[3], scale)
    /\ ~ \E k \in 1..Len(prevObjects) :
            /\ prevObjects[k].id \notin {wallsOf(prevObjects)[1].id, wallsOf(prevObjects)[2].id}
            /\ EndpointNearGap(gapSegmentOf(getClosestEndpoints(wallsOf(prevObjects)[1], wallsOf(prevObjects)[2])),
                               prevObjects[k])
    /\ lastPair[2] = wallsOf(prevObjects)[3]

(***************************************************************************)
(* C6: merges are local: every merge step fuses walls whose closest        *)
(* endpoints are at most 150/scale apart, and a collection in which every  *)
(* collinear pair of walls is farther apart than that is left unchanged.   *)
(***************************************************************************)
C6_MergesAreLocal ==
    /\ JustMerged => WithinMergeDistance(GapDistSq(lastPair[1], lastPair[2]), scale)
    /\ ( /\ MergeReturned
         /\ \A i \in 1..Len(wallsOf(callObjects)) : \A j \in 1..Len(wallsOf(callObjects)) :
               (i # j /\ areSegmentsCollinear(wallsOf(callObjects)[i], wallsOf(callObjects)[j]))
                   => ~ WithinMergeDistance(GapDistSq(wallsOf(callObjects)[i], wallsOf(callObjects)[j]), scale) )
       => (objects = callObjects /\ selection = callSelection /\ nMerges = 0)

\* two collinear walls 140 apart at scale 1.1 (150/1.1 = 136.4), left alone
C6_Witness ==
    /\ pc = "merged"
    /\ scale = [n |-> 11, d |-> 10]
    /\ objects = callObjects
    /\ \E i \in 1..Len(wallsOf(objects)) : \E j \in 1..Len(wallsOf(objects)) :
        /\ i < j
        /\ areSegmentsCollinear(wallsOf(objects)[i], wallsOf(objects)[j])
        /\ GapDistSq(wallsOf(objects)[i], wallsOf(objects)[j]) = 140 * 140
        /\ ~ isGapBlocked(gapSegmentOf(getClosestEndpoints(wallsOf(objects)[i], wallsOf(objects)[j])),
                          wallsOf(objects)[i], wallsOf(objects)[j], objects)

(***************************************************************************)
(* C7: after a merge of w1 and w2 the selection is exactly the new merged  *)
(* segment when w1 or w2 was selected, and is unchanged otherwise.         *)
(***************************************************************************)
C7_SelectionAfterMerge ==
    JustMerged =>
        IF lastPair[1].id \in SeqToSet(prevSelection) \/ lastPair[2].id \in SeqToSet(prevSelection)
        THEN selection = << LastOf(objects).id >>
        ELSE selection = prevSelection

\* three objects were selected, one of them untouched by the merge
C7_Witness ==
    /\ JustMerged
    /\ Len(prevSelection) = 3
    /\ \E k \in 1..Len(prevSelection) :
          prevSelection[k] \in Ids(objects) /\ prevSelection[k] \notin SeqToSet(selection)
    /\ selection = << LastOf(objects).id >>

(***************************************************************************)
(* Vocabulary of the split properties                                      *)
(***************************************************************************)
\* the activeObj argument of the split pass that has just returned
ActiveObj == CHOOSE o \in SeqToSet(callObjects) : o.id = active

\* positions of the walls the pass has changed
SplitAt == { k \in 1..Len(callObjects) : objects[k] # callObjects[k] }

\* the remainder pushed for the wall at position k: the pass pushes them in collection order
PushedFor(k) == objects[Len(callObjects) + Cardinality({ k2 \in SplitAt : k2 <= k })]

\* lower and higher projection of the active segment on other (numerators over LenSqOf(other))
LowProj(other, a) == SetMin({ ProjNum(p.x, p.y, other) : p \in EndpointsOf(a) })

HighProj(other, a) == SetMax({ ProjNum(p.x, p.y, other) : p \in EndpointsOf(a) })

\* a is collinear with other and strictly inside it: both parameters in (0.01, 0.99)
StrictlyContains(other, a) ==
    /\ LenSqOf(other) > 0
    /\ \A p \in EndpointsOf(a) :
        /\ Sq((p.x - other.x1) * (other.y2 - other.y1) - (p.y - other.y1) * (other.x2 - other.x1))
               < 36 * LenSqOf(other)
        /\ 100 * ProjNum(p.x, p.y, other) > LenSqOf(other)
        /\ 100 * ProjNum(p.x, p.y, other) < 99 * LenSqOf(other)

ShouldSplit(other, a) ==
    other.type = "wall" /\ other.id # a.id /\ StrictlyContains(other, a)

(***************************************************************************)
(* C8: a wall `other` split by `active` keeps its first endpoint and ends  *)
(* at the lower projection of active on it; one new segment runs from the  *)
(* higher projection to other's original second endpoint with other's      *)
(* kind, width, height and color; both remainders have positive length and *)
(* lie outside active's projected interval.  (0,0)-(100,0) split by        *)
(* (30,0)-(70,0) gives (0,0)-(30,0) and a new wall (70,0)-(100,0).         *)
(***************************************************************************)
C8_SplitRemainders ==
    pc = "split" =>
        /\ \A k \in SplitAt :
            LET other == callObjects[k]
                rem1 == objects[k]
                rem2 == PushedFor(k)
                lo == LowProj(other, ActiveObj)
                hi == HighProj(other, ActiveObj)
            IN  /\ rem1 = [other EXCEPT !.x2 = rem1.x2, !.y2 = rem1.y2]
                /\ OnAxis(rem1.x2, rem1.y2, other)
                /\ ProjNum(rem1.x2, rem1.y2, other) = lo
                /\ rem2 = [other EXCEPT !.id = rem2.id, !.x1 = rem2.x1, !.y1 = rem2.y1]
                /\ rem2.id \notin Ids(callObjects)
                /\ OnAxis(rem2.x1, rem2.y1, other)
                /\ ProjNum(rem2.x1, rem2.y1, other) = hi
                /\ LenSqOf(rem1) > 0 /\ LenSqOf(rem2) > 0
                /\ 0 < lo /\ lo <= hi /\ hi < LenSqOf(other)
        /\ \A k \in 1..Len(callObjects) :
            ( /\ callObjects[k].type = "wall"
              /\ HasCoords(callObjects[k], 0, 0, 100, 0)
              /\ HasCoords(ActiveObj, 30, 0, 70, 0) )
            => /\ HasCoords(objects[k], 0, 0, 30, 0)
               /\ \E n \in (Len(callObjects) + 1)..Len(objects) :
                    /\ HasCoords(objects[n], 70, 0, 100, 0)
                    /\ SameAttributes(objects[n], callObjects[k])
                    /\ SameAttributes(objects[k], callObjects[k])

\* the wall (0,0)-(100,0) has been split by the window (30,0)-(70,0)
C8_Witness ==
    /\ pc = "split"
    /\ ret
    /\ HasCoords(ActiveObj, 30, 0, 70, 0)
    /\ SomeWith(callObjects, "wall", 0, 0, 100, 0)
    /\ SomeWith(objects, "wall", 0, 0, 30, 0)
    /\ SomeWith(objects, "wall", 70, 0, 100, 0)

(***************************************************************************)
(* C9: one pass checkAndSplitObjects(active) splits exactly the walls      *)
(* other than active that are collinear with it and strictly contain it,   *)
(* each once; the pushed segments are not examined; the collection grows   *)
(* by the number of walls split; it returns true iff a wall was split.     *)
(***************************************************************************)
C9_SplitPass ==
    pc = "split" =>
        /\ Len(objects) >= Len(callObjects)
        /\ \A k \in 1..Len(callObjects) :
            /\ objects[k].id = callObjects[k].id
            /\ (k \in SplitAt) <=> ShouldSplit(callObjects[k], ActiveObj)
        /\ Len(objects) =
             Len(callObjects)
               + Cardinality({ k \in 1..Len(callObjects) : ShouldSplit(callObjects[k], ActiveObj) })
        /\ \A k \in SplitAt :
            /\ PushedFor(k).x2 = callObjects[k].x2
            /\ PushedFor(k).y2 = callObjects[k].y2
            /\ ProjNum(objects[k].x2, objects[k].y2, callObjects[k]) = LowProj(callObjects[k], ActiveObj)
        /\ ret = (SplitAt # {})
        /\ selection = callSelection

\* two walls were split by the same active segment in one pass
C9_Witness ==
    /\ pc = "split"
    /\ ret
    /\ Cardinality(SplitAt) = 2
    /\ Len(objects) = Len(callObjects) + 2

(***************************************************************************)
(* C10: the topology maintenance has run when an edit completes: when the  *)
(* handler of a new-segment drag end, a resize end, a move end or a delete *)
(* returns, no pair of walls satisfies the merge conditions, and no        *)
(* segment the handler created or modified lies strictly inside a          *)
(* collinear wall.                                                         *)
(***************************************************************************)
MergeFixedPoint(objs, sc) ==
    \A i \in 1..Len(objs) : \A j \in 1..Len(objs) :
        (i # j /\ objs[i].type = "wall" /\ objs[j].type = "wall") =>
            ~ MergeConditions(objs[i], objs[j], objs, sc)

NotInsideAWall(objs, ids) ==
    \A a \in 1..Len(objs) : \A k \in 1..Len(objs) :
        objs[a].id \in ids => ~ ShouldSplit(objs[k], objs[a])

C10_TopologyAfterEdit ==
    pc \in {"create", "resizeEnd", "moveEnd", "delete"} =>
        /\ MergeFixedPoint(objects, scale)
        /\ NotInsideAWall(objects, touched)

(***************************************************************************)
(* C11: a split pass or a merge pass is atomic: when it aborts on an       *)
(* internal error (the TypeError raised on a null entry of the collection) *)
(* the collection and the selection are exactly as they were when the pass *)
(* was called.                                                             *)
(***************************************************************************)
C11_PassesAtomic ==
    pc \in {"split.threw", "merge.threw"} =>
        /\ objects = callObjects
        /\ selection = callSelection

\* a merge pass that throws has changed nothing
C11_MergeThrowsEarly == pc = "merge.threw" => objects = callObjects

\* the split pass threw after it had shortened a wall whose remainder it never pushed
C11_TruncatedWithoutRemainder ==
    /\ pc = "split.threw"
    /\ Len(objects) = Len(callObjects)
    /\ \E k \in 1..Len(objects) :
        /\ callObjects[k] # NULL
        /\ HasCoords(callObjects[k], 0, 0, 100, 0)
        /\ HasCoords(objects[k], 0, 0, 30, 0)

(***************************************************************************)
(* C12: the selection refers to objects of the collection                  *)
(***************************************************************************)
\* C12: in every reachable state the selection holds no object twice and every object
\* it holds is an element of state.objects
C12_SelectionInCollection ==
    /\ SeqToSet(selection) \subseteq Ids(objects)
    /\ Cardinality(SeqToSet(selection)) = Len(selection)

\* a file was imported while a segment was selected: the selection still holds the
\* segment of the replaced collection
C12_SelectionOutlivesImport ==
    /\ Len(selection) = 1
    /\ Len(detached) = 1
    /\ detached[1].id = selection[1]
    /\ selection[1] \notin Ids(objects)

(***************************************************************************)
(* The snap functions of geometry.js called on their own: the collection   *)
(* and the scale are drawn at the start, the call draws its other          *)
(* arguments. The functions are pure, so a behaviour is one call, and for  *)
(* snapToObjects its repetition on the point returned. Only calls whose    *)
(* closest points are grid points are made.                                *)
(***************************************************************************)
\* the segments the collections are made of
SnapCatalogue ==
    { Seg("wall", 0, 0, 100, 0, 3, 80, "#00ffcc"),
      Seg("wall", 0, 0, 0, -50, 3, 80, "#00ffcc"),
      Seg("wall", 20, 0, 20, -50, 3, 80, "#00ffcc"),
      Seg("door", 50, 5, 50, 45, 2, 70, "#ffd700"),
      Seg("furniture", 104, 3, -8, 3, 3, 45, "#ff69b4") }

\* largest collection the snap functions are called with
MaxTargets == 2

SnapCollections ==
    UNION { { [k \in 1..Len(q) |-> [q[k] EXCEPT !.id = k]] : q \in DistinctSeqs(SnapCatalogue, n) }
            : n \in 0..MaxTargets }

\* the points snapped: at, just inside and just outside 15 and 15 / 1.1 units of a
\* segment or of an endpoint, on a vertex, at equal distance from two endpoints, and
\* where the snapped point has a second object within the threshold
SnapPoints ==
    { Pt(50, 5), Pt(50, 13), Pt(50, 14), Pt(50, 15), Pt(50, 16), Pt(-14, 0), Pt(-15, 0),
      Pt(-16, 0), Pt(-9, -12), Pt(10, 10), Pt(100, 0), Pt(105, 3), Pt(6, 5) }

\* the values snapped along one axis
AxisValues == { -12, -11, 3, 38, 39, 50 }

\* the translations proposed for the selection
SnapDeltas == { Pt(0, 0), Pt(0, -3), Pt(1, 0) }

\* the selections moved: none, one object, or every object of the collection
MovedSelections(objs) == { << >>, objs } \cup { << objs[k] >> : k \in 1..Len(objs) }

InitSnap ==
    /\ objects \in SnapCollections
    /\ selection = << >>
    /\ scale \in { [n |-> 1, d |-> 1], [n |-> 11, d |-> 10] }
    /\ mode = "null"
    /\ isDragging = FALSE
    /\ dragStart = NULL
    /\ isResizing = FALSE
    /\ resizeHandle = "null"
    /\ isMoving = FALSE
    /\ isPotentialMove = FALSE
    /\ lastMousePos = NULL
    /\ isRotating = FALSE
    /\ rotationCenter = NULL
    /\ rotationStartAngle = [dx |-> 1, dy |-> 0]
    /\ initialObjectStates = << >>
    /\ isBoxSelecting = FALSE
    /\ boxSelectionStart = NULL
    /\ boxSelectionEnd = NULL
    /\ history = << >>
    /\ historyIndex = -1
    /\ detached = << >>
    /\ pressed = FALSE
    /\ nEvents = 0
    /\ nImports = 0
    /\ arg = NULL
    /\ out = NULL
    /\ origin = << >>
    /\ touched = {}
    /\ pc = "idle"
    /\ prevObjects = objects
    /\ prevSelection = selection
    /\ callObjects = objects
    /\ callSelection = selection
    /\ active = 0
    /\ ret = FALSE
    /\ nMerges = 0
    /\ priorMerges = 0
    /\ lastPair = << >>

\* a snap function was called and returned: nothing of the editor changes
SnapCalled(name, a, r) ==
    /\ pc' = name
    /\ arg' = a
    /\ out' = r
    /\ UNCHANGED <<objects, selection, scale, editorVars, pressed, nEvents, nImports,
                   prevObjects, prevSelection, touched, passVars, origin>>

\* snapToObjects(x, y, objects, scale, excludeObjects)
SnapToObjects ==
    \E p \in SnapPoints, excludeObjects \in SUBSET Ids(objects) :
        /\ pc = "idle"
        /\ snapToObjectsExact(p.x, p.y, objects, excludeObjects)
        /\ \E r \in {snapToObjects(p.x, p.y, objects, scale, excludeObjects)} :
               SnapCalled("snapToObjects",
                          [x |-> p.x, y |-> p.y, excludeObjects |-> excludeObjects, first |-> p],
                          Pt(r.x, r.y))

\* snapToObjects called again with the point it returned
SnapToObjectsAgain ==
    /\ pc = "snapToObjects"
    /\ snapToObjectsExact(out.x, out.y, objects, arg.excludeObjects)
    /\ \E r \in {snapToObjects(out.x, out.y, objects, scale, arg.excludeObjects)} :
           SnapCalled("snapToObjects.again",
                      [x |-> out.x, y |-> out.y, excludeObjects |-> arg.excludeObjects,
                       first |-> arg.first],
                      Pt(r.x, r.y))

\* getAxisSnap(value, axis, objects, exclude, scale)
GetAxisSnap ==
    \E value \in AxisValues, axis \in {"x", "y"}, exclude \in SUBSET Ids(objects) :
        /\ pc = "idle"
        /\ SnapCalled("getAxisSnap", [value |-> value, axis |-> axis, exclude |-> exclude],
                      getAxisSnap(value, axis, objects, exclude, scale))

\* getAlignmentCorrection(getSelectionBounds(selection), dx, dy, unselected, scale)
GetAlignmentCorrection ==
    \E sel \in MovedSelections(objects), d \in SnapDeltas :
        /\ pc = "idle"
        /\ SnapCalled("getAlignmentCorrection", [sel |-> sel, dx |-> d.x, dy |-> d.y],
                      getAlignmentCorrection(getSelectionBounds(sel), d.x, d.y,
                                             unselectedOf(sel, objects), scale))

\* getMoveSnapCorrection(dx, dy, selection, objects, scale)
GetMoveSnapCorrection ==
    \E sel \in MovedSelections(objects), d \in SnapDeltas :
        /\ pc = "idle"
        /\ getMoveSnapCorrectionExact(d.x, d.y, sel, objects)
        /\ \E r \in {getMoveSnapCorrection(d.x, d.y, sel, objects, scale)} :
               /\ r.exact
               /\ SnapCalled("getMoveSnapCorrection", [sel |-> sel, dx |-> d.x, dy |-> d.y],
                             Pt(r.x, r.y))

NextSnap ==
    \/ SnapToObjects \/ SnapToObjectsAgain \/ GetAxisSnap
    \/ GetAlignmentCorrection \/ GetMoveSnapCorrection

SpecSnap == InitSnap /\ [][NextSnap]_vars

(***************************************************************************)
(* C13: no snap function displaces by its threshold or more                *)
(***************************************************************************)
\* q lies on the segment
OnSegment(q, seg) ==
    /\ (q.x - seg.x1) * (seg.y2 - seg.y1) = (q.y - seg.y1) * (seg.x2 - seg.x1)
    /\ Min2(seg.x1, seg.x2) <= q.x /\ q.x <= Max2(seg.x1, seg.x2)
    /\ Min2(seg.y1, seg.y2) <= q.y /\ q.y <= Max2(seg.y1, seg.y2)

\* the grid points of the segment
GridPointsOn(seg) ==
    { q \in [x : Min2(seg.x1, seg.x2)..Max2(seg.x1, seg.x2),
             y : Min2(seg.y1, seg.y2)..Max2(seg.y1, seg.y2)] : OnSegment(q, seg) }

\* the objects a call of snapToObjects or getAxisSnap may snap to
Targets(excluded) == { k \in 1..Len(objects) : objects[k].id \notin excluded }

\* the distance is strictly below k / scale
Within(distSq, k) == distSq * Sq(scale.n) < Sq(k) * Sq(scale.d)

\* left, centre and right (axis "x") or top, centre and bottom (axis "y") of the
\* bounding box of the segments, in half units
Lines2(segs, axis) ==
    LET vs == IF axis = "x"
              THEN {segs[k].x1 : k \in 1..Len(segs)} \cup {segs[k].x2 : k \in 1..Len(segs)}
              ELSE {segs[k].y1 : k \in 1..Len(segs)} \cup {segs[k].y2 : k \in 1..Len(segs)}
    IN  { 2 * SetMin(vs), SetMin(vs) + SetMax(vs), 2 * SetMax(vs) }

\* the differences, in half units, between a line of the objects left in place and a
\* line of the selection moved by d along the axis
AlignmentDeltas2(sel, axis, d) ==
    IF Len(sel) = 0 THEN {}
    ELSE { t - (s + 2 * d) :
             t \in UNION { Lines2(<< o >>, axis) : o \in SeqToSet(unselectedOf(sel, objects)) },
             s \in Lines2(sel, axis) }

\* C13: snapToObjects returns the point unchanged or a point of a non-excluded object
\* strictly less than 15/scale away, and the point unchanged when no such point
\* exists; each component of getAlignmentCorrection is strictly below 40/scale, and
\* zero when no pair of lines is that close; getAxisSnap returns null or a line of a
\* non-excluded object strictly within 12/scale of the value, and null when there is none
C13_SnapsBelowThreshold ==
    /\ pc \in {"snapToObjects", "snapToObjects.again"} =>
        /\ \/ out = Pt(arg.x, arg.y)
           \/ \E k \in Targets(arg.excludeObjects) :
                /\ OnSegment(out, objects[k])
                /\ Within(DistSq(arg.x, arg.y, out.x, out.y), 15)
        /\ (\A k \in Targets(arg.excludeObjects) : \A q \in GridPointsOn(objects[k]) :
                ~ Within(DistSq(arg.x, arg.y, q.x, q.y), 15))
            => out = Pt(arg.x, arg.y)
    /\ pc = "getAlignmentCorrection" =>
        /\ Abs(out.x2) * scale.n < 2 * 40 * scale.d
        /\ Abs(out.y2) * scale.n < 2 * 40 * scale.d
        /\ (\A d2 \in AlignmentDeltas2(arg.sel, "x", arg.dx) :
                Abs(d2) * scale.n >= 2 * 40 * scale.d) => out.x2 = 0
        /\ (\A d2 \in AlignmentDeltas2(arg.sel, "y", arg.dy) :
                Abs(d2) * scale.n >= 2 * 40 * scale.d) => out.y2 = 0
    /\ pc = "getAxisSnap" =>
        /\ out.found =>
            /\ Abs(out.value2 - 2 * arg.value) * scale.n < 2 * 12 * scale.d
            /\ \E k \in Targets(arg.exclude) : out.value2 \in Lines2(<< objects[k] >>, arg.axis)
        /\ (\A k \in Targets(arg.exclude) : \A l2 \in Lines2(<< objects[k] >>, arg.axis) :
                Abs(l2 - 2 * arg.value) * scale.n >= 2 * 12 * scale.d)
            => ~ out.found

\* snapToObjects moved the point onto an object although an excluded object is nearer
C13_Witness ==
    /\ pc = "snapToObjects"
    /\ out # Pt(arg.x, arg.y)
    /\ \E k \in 1..Len(objects) :
        /\ objects[k].id \in arg.excludeObjects
        /\ \E q \in GridPointsOn(objects[k]) :
               DistSq(arg.x, arg.y, q.x, q.y) < DistSq(arg.x, arg.y, out.x, out.y)

(***************************************************************************)
(* C14: the threshold boundary of snapToObjects                            *)
(***************************************************************************)
\* the endpoints of the objects the call may snap to
TargetEndpoints ==
    UNION { { Pt(objects[k].x1, objects[k].y1), Pt(objects[k].x2, objects[k].y2) }
            : k \in Targets(arg.excludeObjects) }

\* no point of an object the call may snap to is closer to the point snapped than e
NothingCloser(e) ==
    \A k \in Targets(arg.excludeObjects) : \A q \in GridPointsOn(objects[k]) :
        DistSq(arg.x, arg.y, q.x, q.y) >= DistSq(arg.x, arg.y, e.x, e.y)

\* every other point of an object the call may snap to is farther away than e
NothingAsClose(e) ==
    \A k \in Targets(arg.excludeObjects) : \A q \in GridPointsOn(objects[k]) :
        q # e => DistSq(arg.x, arg.y, q.x, q.y) > DistSq(arg.x, arg.y, e.x, e.y)

\* the distance from the point snapped to e is above 15 / scale
Beyond15(e) == DistSq(arg.x, arg.y, e.x, e.y) * Sq(scale.n) > Sq(15) * Sq(scale.d)

\* C14 as stated: for an endpoint of a non-excluded object with nothing closer,
\* snapToObjects returns the point unchanged when the endpoint is more than 15/scale
\* away and the endpoint when it is less than 15/scale away
C14_Original ==
    pc = "snapToObjects" =>
        \A e \in TargetEndpoints :
            NothingCloser(e) =>
                /\ Beyond15(e) => out = Pt(arg.x, arg.y)
                /\ Within(DistSq(arg.x, arg.y, e.x, e.y), 15) => out = e

\* C14: for an endpoint of a non-excluded object that is nearer than every other point
\* of the non-excluded objects, snapToObjects returns the point unchanged when the
\* endpoint is more than 15/scale away and the endpoint when it is less than 15/scale away
C14_ThresholdBoundary ==
    pc = "snapToObjects" =>
        \A e \in TargetEndpoints :
            NothingAsClose(e) =>
                /\ Beyond15(e) => out = Pt(arg.x, arg.y)
                /\ Within(DistSq(arg.x, arg.y, e.x, e.y), 15) => out = e

\* at scale 1 a point 14 units from the nearest endpoint was snapped onto it
C14_Witness ==
    /\ pc = "snapToObjects"
    /\ scale = [n |-> 1, d |-> 1]
    /\ \E e \in TargetEndpoints :
        /\ NothingAsClose(e)
        /\ DistSq(arg.x, arg.y, e.x, e.y) = 196
        /\ out = e

\* a point 16 units from the nearest endpoint was left where it is
C14_JustAbove ==
    /\ pc = "snapToObjects"
    /\ scale = [n |-> 1, d |-> 1]
    /\ \E e \in TargetEndpoints :
        /\ NothingAsClose(e)
        /\ DistSq(arg.x, arg.y, e.x, e.y) = 256
        /\ out = Pt(arg.x, arg.y)

(***************************************************************************)
(* C15: snapToObjects is idempotent                                        *)
(***************************************************************************)
\* C15: snapToObjects called on the point it returned, with the same objects, scale
\* and exclusions, returns that point; a point on an endpoint of a non-excluded
\* object is returned unchanged
C15_SnapIdempotent ==
    /\ pc = "snapToObjects.again" => out = Pt(arg.x, arg.y)
    /\ (pc = "snapToObjects" /\ Pt(arg.x, arg.y) \in TargetEndpoints) => out = Pt(arg.x, arg.y)

\* the first call moved the point, to where an object it was not moved onto is
\* within the threshold, and the second call returned it as it is
C15_Witness ==
    /\ pc = "snapToObjects.again"
    /\ arg.first # Pt(arg.x, arg.y)
    /\ out = Pt(arg.x, arg.y)
    /\ \E k \in Targets(arg.excludeObjects) :
        /\ ~ OnSegment(out, objects[k])
        /\ \E q \in GridPointsOn(objects[k]) : Within(DistSq(out.x, out.y, q.x, q.y), 15)

(***************************************************************************)
(* C16: the correction getMoveSnapCorrection returns                       *)
(***************************************************************************)
\* the objects left in place by the move
Unselected == unselectedOf(arg.sel, objects)

\* the endpoints of the selection after the proposed translation
MovedEndpoints ==
    UNION { { Pt(arg.sel[i].x1 + arg.dx, arg.sel[i].y1 + arg.dy),
              Pt(arg.sel[i].x2 + arg.dx, arg.sel[i].y2 + arg.dy) } : i \in 1..Len(arg.sel) }

\* the squared distance from e to q
DistSqTo(e, q) == DistSq(e.x, e.y, q.x, q.y)

\* the squared distance from e to the nearest point of the set g
MinDistSqTo(e, g) == SetMin({ DistSqTo(e, r) : r \in g })

\* the point of g at squared distance m from e
PointAt(e, g, m) == CHOOSE q \in g : DistSqTo(e, q) = m

\* the point of the segment nearest to e
NearestOn(e, seg) == PointAt(e, GridPointsOn(seg), MinDistSqTo(e, GridPointsOn(seg)))

\* the squared distance from a moved endpoint to an object left in place
PairDistSq(e, j) == MinDistSqTo(e, GridPointsOn(Unselected[j]))

\* the pairs (moved endpoint, object left in place) strictly within 15/scale of each
\* other that no other pair is closer than
ClosestPairs ==
    { pr \in MovedEndpoints \X (1..Len(Unselected)) :
        /\ Within(PairDistSq(pr[1], pr[2]), 15)
        /\ \A o \in MovedEndpoints \X (1..Len(Unselected)) :
               PairDistSq(pr[1], pr[2]) <= PairDistSq(o[1], o[2]) }

\* the alignment correction of the same move, in half units
Alignment2 ==
    getAlignmentCorrection(getSelectionBounds(arg.sel), arg.dx, arg.dy, Unselected, scale)

\* the alignment value a2 (half units) replaces the endpoint correction c on its axis
Overrides(a2, c) == a2 # 0 /\ (c = 0 \/ Abs(a2) < 2 * Abs(c))

\* the vector from e to q
VectorTo(e, q) == Pt(q.x - e.x, q.y - e.y)

\* the correction returned is c, the vector that brings the pair (e, target) into
\* coincidence, but for the axes where the alignment al replaces it; with no axis
\* replaced the moved endpoint is on the target
ReturnedFor(e, target, c, al) ==
    /\ out.x = IF Overrides(al.x2, c.x) THEN al.x2 \div 2 ELSE c.x
    /\ out.y = IF Overrides(al.y2, c.y) THEN al.y2 \div 2 ELSE c.y
    /\ (~ Overrides(al.x2, c.x) /\ ~ Overrides(al.y2, c.y))
        => OnSegment(Pt(e.x + out.x, e.y + out.y), target)

\* C16 as stated: when a moved endpoint is strictly within 15/scale of an object left
\* in place, the selection moved by delta plus the returned correction has the endpoint
\* of a closest pair on its target segment; with no object left in place the
\* correction is (0,0)
C16_Original ==
    pc = "getMoveSnapCorrection" =>
        /\ Len(Unselected) = 0 => out = Pt(0, 0)
        /\ ClosestPairs # {} =>
            \E pr \in ClosestPairs :
                OnSegment(Pt(pr[1].x + out.x, pr[1].y + out.y), Unselected[pr[2]])

\* C16: when a moved endpoint is strictly within 15/scale of an object left in place,
\* the returned correction is, on each axis, the component of the vector that brings a
\* closest pair into coincidence, unless the alignment correction on that axis is not
\* zero and either smaller in magnitude or the component is zero: then it is the
\* alignment correction. With no axis replaced the endpoint lands on its target
\* segment; with no object left in place the correction is (0,0)
C16_MoveSnapCorrection ==
    pc = "getMoveSnapCorrection" =>
        /\ Len(Unselected) = 0 => out = Pt(0, 0)
        /\ ClosestPairs # {} =>
            \E pr \in ClosestPairs :
                ReturnedFor(pr[1], Unselected[pr[2]],
                            VectorTo(pr[1], NearestOn(pr[1], Unselected[pr[2]])), Alignment2)

\* a move whose correction, not zero on either axis, puts the closest endpoint on the
\* end of its target
C16_Witness ==
    /\ pc = "getMoveSnapCorrection"
    /\ out.x # 0 /\ out.y # 0
    /\ \E pr \in ClosestPairs :
        /\ Pt(pr[1].x + out.x, pr[1].y + out.y)
               = Pt(Unselected[pr[2]].x1, Unselected[pr[2]].y1)

\* a move whose correction on x is the alignment correction: the closest endpoint
\* ends beside its target
C16_AlignmentReplacesAxis ==
    /\ pc = "getMoveSnapCorrection"
    /\ ClosestPairs # {}
    /\ 2 * out.x = Alignment2.x2
    /\ \A pr \in ClosestPairs :
        ~ OnSegment(Pt(pr[1].x + out.x, pr[1].y + out.y), Unselected[pr[2]])

(***************************************************************************)
(* C17: object snap or angle snap, and nothing else, places the point      *)
(***************************************************************************)
\* r is at the pointer's distance from the fixed end, in one of the eight directions
\* of the 45-degree steps
IsAngleSnap(r, fixed, p) ==
    /\ DistSq(r.x, r.y, fixed.x, fixed.y) = DistSq(p.x, p.y, fixed.x, fixed.y)
    /\ \/ r.x = fixed.x
       \/ r.y = fixed.y
       \/ Abs(r.x - fixed.x) = Abs(r.y - fixed.y)

\* r is what exactly one of the two snaps makes of the pointer p: the object snap when
\* it moves p, else the angle snap about the fixed end
OneSnapDecides(r, p, fixed, excluded) ==
    LET s == snapToObjects(p.x, p.y, objects, scale, excluded)
    IN  IF s.x # p.x \/ s.y # p.y THEN r = Pt(s.x, s.y) ELSE IsAngleSnap(r, fixed, p)

\* the end of obj the handle drags
DraggedEnd(obj, handle) ==
    IF handle = "start" THEN Pt(obj.x1, obj.y1) ELSE Pt(obj.x2, obj.y2)

\* a pointer-move of a resize gesture put the dragged end of object k elsewhere
ResizeStep(k) ==
    /\ isResizing /\ isResizing'
    /\ ~ isMoving /\ ~ isBoxSelecting /\ ~ isRotating
    /\ resizeHandle \in {"start", "end"} /\ resizeHandle' = resizeHandle
    /\ selection = << objects[k].id >> /\ selection' = selection
    /\ history' = history
    /\ Len(objects') = Len(objects)
    /\ \A n \in 1..Len(objects) : n # k => objects'[n] = objects[n]
    /\ objects'[k].id = objects[k].id
    /\ DraggedEnd(objects'[k], resizeHandle) # DraggedEnd(objects[k], resizeHandle)

\* a pointer-up completed a draw gesture: object k is the new segment
CreateStep(k) ==
    /\ isDragging
    /\ pc' = "create"
    /\ nEvents' = nEvents + 1
    /\ touched' = { objects'[k].id }

\* C17: the point a pointer-move of a resize gesture or the pointer-up of a draw
\* gesture results in is, for some pointer position, the pointer itself (snapping
\* disabled), or what exactly one of object snap and angle snap makes of it, with no
\* further adjustment
C17_OneSnapDecidesThePoint ==
    [][ /\ \A k \in 1..Len(objects) :
            ResizeStep(k) =>
                \E p \in Points :
                    \/ DraggedEnd(objects'[k], resizeHandle) = p
                    \/ OneSnapDecides(DraggedEnd(objects'[k], resizeHandle), p,
                                      fixedPoint(objects[k], resizeHandle), { objects[k].id })
        /\ \A k \in 1..Len(objects') :
            CreateStep(k) =>
                \E p \in Points :
                    \/ Pt(objects'[k].x2, objects'[k].y2) = p
                    \/ OneSnapDecides(Pt(objects'[k].x2, objects'[k].y2), p, dragStart, {})
      ]_vars

\* a resize gesture in which the angle snap left the dragged end at the pointer
\* (50,0) and the axis snap then pulled it to x = 40, the line of another wall
C17_AxisSnapAfterAngleSnap ==
    /\ isResizing
    /\ Len(selection) = 1
    /\ \E k \in 1..Len(objects) :
        /\ objects[k].id = selection[1]
        /\ HasCoords(objects[k], 0, 0, 40, 0)

(***************************************************************************)
(* C18: a drawn segment is at least 10 units long                          *)
(***************************************************************************)
\* C18: when the pointer-up of a draw gesture has inserted a segment, the distance
\* between its endpoints is at least 10 (a drag yielding a shorter segment inserts none)
C18_DrawnSegmentsAtLeastTen ==
    pc = "create" =>
        \A k \in 1..Len(objects) :
            objects[k].id \in touched => LenSqOf(objects[k]) >= Sq(10)

\* a draw gesture from the end of a wall to 10 units beside it inserted a segment of
\* length 0 at the end of the wall
C18_ZeroLengthSegment ==
    /\ pc = "create"
    /\ \E k, n \in 1..Len(objects) :
        /\ objects[k].id \in touched
        /\ HasCoords(objects[k], 50, 0, 50, 0)
        /\ HasCoords(objects[n], 0, 0, 50, 0)

(***************************************************************************)
(* C19: the type of every object is one of the four kinds                  *)
(***************************************************************************)
\* C19: in every reachable state every object of the collection has type wall, door,
\* window or furniture
C19_KindsOnly ==
    \A k \in 1..Len(objects) : objects[k].type \in {"wall", "door", "window", "furniture"}

\* Escape was pressed during a draw gesture and the pointer-up inserted an object
\* whose type is the null mode
C19_ObjectOfNoKind ==
    /\ pc = "create"
    /\ mode = "null"
    /\ \E k \in 1..Len(objects) : objects[k].id \in touched /\ objects[k].type = "null"

(***************************************************************************)
(* C20: the snapshots of the history stack do not change                   *)
(***************************************************************************)
\* the handler that just returned pushed a snapshot
Pushed == pc' \in EditEnds /\ nEvents' = nEvents + 1

ContentOf(objs) == [k \in 1..Len(objs) |-> [objs[k] EXCEPT !.id = 0]]

\* no gesture flag of the state is set
NoGesture ==
    ~ (isDragging \/ isResizing \/ isMoving \/ isPotentialMove \/ isRotating \/ isBoxSelecting)

\* the snapshot at historyIndex, the empty collection below the stack
CurrentSnapshot == IF historyIndex >= 0 THEN history[historyIndex + 1] ELSE << >>

\* C21: whenever no gesture is in progress the collection has the content of the
\* snapshot at historyIndex, and is empty when historyIndex is -1
C21_RestingCollectionIsSnapshot ==
    NoGesture => ContentOf(objects) = ContentOf(CurrentSnapshot)

\* a file was imported into the empty editor: the collection holds the file's two
\* walls and the stack is still empty
C21_ImportWithoutSnapshot ==
    /\ NoGesture
    /\ nImports = 1
    /\ Len(objects) = 2
    /\ history = << >>
    /\ historyIndex = -1

(***************************************************************************)
(* The distance queries and the two passes on collections that hold        *)
(* zero-length segments.                                                   *)
(***************************************************************************)
\* a wall, a wall after it on the same line, and segments of length zero: a wall and
\* a door inside the first wall, and a wall past its end
DegenerateCatalogue ==
    { Seg("wall", 0, 0, 100, 0, 3, 80, "#00ffcc"),
      Seg("wall", 120, 3, 200, 3, 3, 80, "#00ffcc"),
      Seg("wall", 50, 0, 50, 0, 3, 80, "#00ffcc"),
      Seg("door", 30, 0, 30, 0, 2, 70, "#ffd700"),
      Seg("wall", 110, 0, 110, 0, 3, 80, "#00ffcc") }

DegenerateCollections ==
    UNION { { [k \in 1..Len(q) |-> [q[k] EXCEPT !.id = k]] : q \in DistinctSeqs(DegenerateCatalogue, n) }
            : n \in 0..MaxObjs }

\* the points the distances are asked for
QueryPoints == { Pt(50, 0), Pt(53, 4), Pt(110, 0) }

InitDegenerate ==
    /\ objects \in DegenerateCollections
    /\ selection \in Selections(objects)
    /\ scale = [n |-> 1, d |-> 1]
    /\ mode = "null"
    /\ isDragging = FALSE
    /\ dragStart = NULL
    /\ isResizing = FALSE
    /\ resizeHandle = "null"
    /\ isMoving = FALSE
    /\ isPotentialMove = FALSE
    /\ lastMousePos = NULL
    /\ isRotating = FALSE
    /\ rotationCenter = NULL
    /\ rotationStartAngle = [dx |-> 1, dy |-> 0]
    /\ initialObjectStates = << >>
    /\ isBoxSelecting = FALSE
    /\ boxSelectionStart = NULL
    /\ boxSelectionEnd = NULL
    /\ history = << >>
    /\ historyIndex = -1
    /\ detached = << >>
    /\ pressed = FALSE
    /\ nEvents = 0
    /\ nImports = 0
    /\ arg = NULL
    /\ out = NULL
    /\ origin = << >>
    /\ touched = {}
    /\ pc = "idle"
    /\ prevObjects = objects
    /\ prevSelection = selection
    /\ callObjects = objects
    /\ callSelection = selection
    /\ active = 0
    /\ ret = FALSE
    /\ nMerges = 0
    /\ priorMerges = 0
    /\ lastPair = << >>

\* pointToLineDistance(px, py, x1, y1, x2, y2) on the line of an object
PointToLineDistance ==
    \E p \in QueryPoints, k \in 1..Len(objects) :
        /\ pc = "idle"
        /\ SnapCalled("pointToLineDistance", [x |-> p.x, y |-> p.y, seg |-> objects[k]],
                      pointToLineDistance(p.x, p.y, objects[k].x1, objects[k].y1,
                                          objects[k].x2, objects[k].y2))

\* closestPointOnSegment(px, py, x1, y1, x2, y2) on an object
ClosestPointOnSegment ==
    \E p \in QueryPoints, k \in 1..Len(objects) :
        /\ pc = "idle"
        /\ closestPointExact(p.x, p.y, objects[k])
        /\ SnapCalled("closestPointOnSegment", [x |-> p.x, y |-> p.y, seg |-> objects[k]],
                      closestPointOnSegment(p.x, p.y, objects[k]))

NextDegenerate ==
    \/ PointToLineDistance \/ ClosestPointOnSegment
    \/ MergeBegin \/ MergeLoop \/ SplitPass \/ SplitAgain

SpecDegenerate == InitDegenerate /\ [][NextDegenerate]_vars

(***************************************************************************)
(* C22: segments of length zero                                            *)
(***************************************************************************)
\* every coordinate of the segment is a number
FiniteCoords(seg) == seg.x1 \in Int /\ seg.y1 \in Int /\ seg.x2 \in Int /\ seg.y2 \in Int

\* C22: for a segment of length zero pointToLineDistance returns Infinity and
\* closestPointOnSegment returns the segment's point with the distance to it; for
\* any other segment the quotient of pointToLineDistance has a non-zero divisor; a
\* split pass splits, and a merge iteration projects on, walls of non-zero length
\* only, and every coordinate of the collection stays a number
C22_DegenerateSegments ==
    /\ pc = "pointToLineDistance" =>
           IF LenSqOf(arg.seg) = 0 THEN out = [infinite |-> TRUE]
           ELSE ~ out.infinite /\ out.lenSq # 0
    /\ (pc = "closestPointOnSegment" /\ LenSqOf(arg.seg) = 0) =>
           out = [x |-> arg.seg.x1, y |-> arg.seg.y1,
                  distSq |-> DistSq(arg.x, arg.y, arg.seg.x1, arg.seg.y1)]
    /\ pc = "split" => \A k \in SplitAt : LenSqOf(callObjects[k]) # 0
    /\ JustMerged => LenSqOf(lastPair[1]) # 0
    /\ \A k \in 1..Len(objects) : FiniteCoords(objects[k])

\* a split pass around a door of length zero inside the wall (0,0)-(100,0), with a
\* wall of length zero in the collection, has split the wall at the door's point
C22_Witness ==
    /\ pc = "split"
    /\ ret
    /\ LenSqOf(ActiveObj) = 0
    /\ ActiveObj.type = "door"
    /\ \E k \in 1..Len(callObjects) : callObjects[k].type = "wall" /\ LenSqOf(callObjects[k]) = 0
    /\ SomeWith(objects, "wall", 0, 0, 30, 0)
    /\ SomeWith(objects, "wall", 30, 0, 100, 0)

\* the distance queries on a segment of length zero, and a merge with a wall of
\* length zero as the second wall of the pair
C22_PointQueried ==
    pc \in {"pointToLineDistance", "closestPointOnSegment"} /\ LenSqOf(arg.seg) = 0

C22_PointMerged ==
    JustMerged /\ LenSqOf(lastPair[2]) = 0

(***************************************************************************)
(* C23: a second split pass with the same active segment splits nothing    *)
(***************************************************************************)
\* C23: checkAndSplitObjects(active) called again on the collection the first call
\* left returns false and leaves the collection as it is
C23_SplitIdempotent ==
    pc = "split.again" => (~ ret /\ objects = callObjects)

\* the first pass split the wall (0,0)-(100,0) around the window (30,0)-(70,0); the
\* second pass has run on the two remainders
C23_Witness ==
    /\ pc = "split.again"
    /\ HasCoords(ActiveObj, 30, 0, 70, 0)
    /\ SomeWith(callObjects, "wall", 0, 0, 30, 0)
    /\ SomeWith(callObjects, "wall", 70, 0, 100, 0)
    /\ SomeWith(objects, "wall", 0, 0, 30, 0)
    /\ SomeWith(objects, "wall", 70, 0, 100, 0)

(***************************************************************************)
(* A door drawn into a wall and deleted again.  The session starts when    *)
(* the button has gone down in door mode on a plan of one wall, drawn      *)
(* before and in the first snapshot; events are counted from there.        *)
(* checkAndMergeWalls can run once the door is in place (as it does at the *)
(* end of any move and after any deletion).                                *)
(***************************************************************************)
\* the wall of the plan: as drawn, or drawn right to left and edited in the property panel
HealWalls ==
    { Seg("wall", 0, 0, 100, 0, 3, 80, "#00ffcc"),
      Seg("wall", 400, 0, 0, 0, 5, 90, "#112233") }

\* where the button went down
DoorStarts == { Pt(30, 0), Pt(50, -5), Pt(100, 0) }

\* where it is released, and where the select tool clicks
DoorEnds == { Pt(70, 0), Pt(70, 3), Pt(50, 5), Pt(250, 0), Pt(260, 0) }

ClickPoints == { Pt(50, 0), Pt(150, 0) }

InitHeal ==
    /\ objects \in { << [w EXCEPT !.id = 1] >> : w \in HealWalls }
    /\ selection = << >>
    /\ scale \in { [n |-> 1, d |-> 1], [n |-> 11, d |-> 10] }
    /\ mode = "door"
    /\ isDragging = TRUE
    /\ dragStart \in DoorStarts
    /\ isResizing = FALSE
    /\ resizeHandle = "null"
    /\ isMoving = FALSE
    /\ isPotentialMove = FALSE
    /\ lastMousePos = NULL
    /\ isRotating = FALSE
    /\ rotationCenter = NULL
    /\ rotationStartAngle = [dx |-> 1, dy |-> 0]
    /\ initialObjectStates = << >>
    /\ isBoxSelecting = FALSE
    /\ boxSelectionStart = NULL
    /\ boxSelectionEnd = NULL
    /\ history = << cloneObjects(objects) >>
    /\ historyIndex = 0
    /\ detached = << >>
    /\ pressed = TRUE
    /\ nEvents = 0
    /\ nImports = 0
    /\ arg = NULL
    /\ out = NULL
    /\ origin = << >>
    /\ touched = {}
    /\ pc = "event"
    /\ prevObjects = << >>
    /\ prevSelection = << >>
    /\ callObjects = << >>
    /\ callSelection = << >>
    /\ active = 0
    /\ ret = FALSE
    /\ nMerges = 0
    /\ priorMerges = 0
    /\ lastPair = << >>

\* the button is released: the door is drawn, or the click is over
HealMouseUp ==
    /\ pressed
    /\ pressed' = FALSE
    /\ \E p \in DoorEnds \cup ClickPoints, ctrlKey \in BOOLEAN :
        \E r \in {mouseup(State, p.x, p.y, ctrlKey)} : Handled(r)

\* the select tool is chosen
HealSetMode ==
    /\ mode = "door"
    /\ ~ pressed
    /\ Handled(Returned(setMode(State, "null"), "setMode", {}, TRUE))
    /\ UNCHANGED pressed

\* the select tool is pressed on the plan
HealMouseDown ==
    /\ mode = "null"
    /\ ~ pressed
    /\ pressed' = TRUE
    /\ \E p \in ClickPoints :
        \E r \in {mousedown(State, p.x, p.y, FALSE, FALSE)} : Handled(r)

NextHeal ==
    \/ HealMouseUp \/ HealSetMode \/ HealMouseDown \/ DeleteSelected
    \/ MergeBegin \/ MergeLoop

SpecHeal == InitHeal /\ [][NextHeal]_vars

(***************************************************************************)
(* C24: a door punched into a wall, and the wall healed when it is deleted *)
(***************************************************************************)
\* the wall of the plan, as the first snapshot shows it
PlanWall == history[1][1]

\* the doors of a collection
DoorsOf(objs) == SelectSeq(objs, LAMBDA o : o.type = "door")

\* the door lies strictly inside the wall of the plan, collinear with it, and is at
\* most 150 / scale long
Punches(d) ==
    /\ StrictlyContains(PlanWall, d)
    /\ WithinMergeDistance(LenSqOf(d), scale)

\* the collection is the wall of the plan cut around the door d: the wall up to the
\* lower projection of d, d, and a wall from the higher projection on
CutAround(objs, d) ==
    /\ Len(objs) = 3
    /\ ContentOf(<< objs[2] >>) = ContentOf(<< d >>)
    /\ SameAttributes(objs[1], PlanWall) /\ SameAttributes(objs[3], PlanWall)
    /\ objs[1].x1 = PlanWall.x1 /\ objs[1].y1 = PlanWall.y1
    /\ ProjNum(objs[1].x2, objs[1].y2, PlanWall) = LowProj(PlanWall, d)
    /\ ProjNum(objs[3].x1, objs[3].y1, PlanWall) = HighProj(PlanWall, d)
    /\ objs[3].x2 = PlanWall.x2 /\ objs[3].y2 = PlanWall.y2

\* C24: a door drawn strictly inside the only wall, collinear with it and at most
\* 150/scale long, leaves the wall cut in two around it; checkAndMergeWalls run while
\* the door is there leaves the two walls as they are; when the door is deleted the
\* collection is again one wall with the endpoints and the attributes of the wall
C24_PunchAndHeal ==
    /\ (pc = "create" /\ Len(objects) >= 2 /\ objects[2].type = "door" /\ Punches(objects[2]))
           => CutAround(objects, objects[2])
    /\ (InMergeCall /\ Len(callObjects) = 3 /\ callObjects[2].type = "door"
            /\ Punches(callObjects[2]))
           => objects = callObjects
    /\ (pc = "delete" /\ Len(history) = 3 /\ Len(history[2]) = 3
            /\ history[2][2].type = "door" /\ Punches(history[2][2])
            /\ DoorsOf(objects) = << >> /\ Len(history[3]) < 3)
           => ContentOf(objects) = << PlanWall >>

\* the door (50,-5)-(50,5) crosses the wall (0,0)-(100,0) at a right angle: the split
\* pass cut the wall at (50,0) and checkAndMergeWalls has fused the two halves under the door
C24_HealedUnderDoor ==
    /\ pc = "merged"
    /\ nMerges = 1
    /\ Len(callObjects) = 3
    /\ HasCoords(callObjects[1], 0, 0, 50, 0)
    /\ HasCoords(callObjects[2], 50, -5, 50, 5)
    /\ HasCoords(callObjects[3], 50, 0, 100, 0)
    /\ Len(objects) = 2
    /\ objects[1].type = "door"
    /\ objects[2].type = "wall" /\ HasCoords(objects[2], 0, 0, 100, 0)

\* the door (30,0)-(70,0) was deleted and the wall (0,0)-(100,0) is whole again
C24_Healed ==
    /\ pc = "delete"
    /\ Len(history) = 3
    /\ Len(history[2]) = 3
    /\ HasCoords(history[2][1], 0, 0, 30, 0)
    /\ HasCoords(history[2][2], 30, 0, 70, 0)
    /\ HasCoords(history[2][3], 70, 0, 100, 0)
    /\ ContentOf(objects) = << PlanWall >>

(***************************************************************************)
(* C25: the walls checkAndMergeWalls leaves and the order of the collection *)
(***************************************************************************)
\* the spans of the walls of a collection, each as its pair of endpoints
WallSpans(objs) == { EndpointsOf(objs[k]) : k \in { n \in 1..Len(objs) : objs[n].type = "wall" } }

\* C25: checkAndMergeWalls leaves the same wall spans whichever order the segments of
\* the collection are in
C25_MergeOrderIndependent ==
    pc = "merged.reordered" => WallSpans(out) = WallSpans(objects)

\* the walls (0,0)-(50,0) and (50,0)-(50,4): in this order they are fused into
\* (0,0)-(50,0), in the other order both are left
C25_OrderDecides ==
    /\ pc = "merged.reordered"
    /\ Len(callObjects) = 2
    /\ HasCoords(callObjects[1], 0, 0, 50, 0)
    /\ HasCoords(callObjects[2], 50, 0, 50, 4)
    /\ WallSpans(objects) = { { Pt(0, 0), Pt(50, 0) } }
    /\ WallSpans(out) = { { Pt(0, 0), Pt(50, 0) }, { Pt(50, 0), Pt(50, 4) } }

(***************************************************************************)
(* C26: what the two passes leave alone                                    *)
(***************************************************************************)
\* the objects of the collection other than the two of the pair, in order
Others(objs, pair) == SelectSeq(objs, LAMBDA o : o.id # pair[1].id /\ o.id # pair[2].id)

\* C26: a loop iteration of checkAndMergeWalls that fuses a pair of walls keeps every
\* other object as it is and in order, ahead of the merged wall, and an iteration
\* that fuses nothing keeps the collection; a split pass keeps every object of the
\* collection at its position, and changes neither activeObj nor any object that is
\* not a wall
C26_PassesTouchWallsOnly ==
    /\ JustMerged =>
           /\ lastPair[1].type = "wall" /\ lastPair[2].type = "wall"
           /\ SubSeq(objects, 1, Len(objects) - 1) = Others(prevObjects, lastPair)
           /\ Len(objects) = Len(prevObjects) - 1
    /\ (InMergeCall /\ ~ JustMerged) => objects = prevObjects
    /\ pc \in {"split", "split.again"} =>
           /\ Len(objects) >= Len(callObjects)
           /\ \A k \in 1..Len(callObjects) :
               /\ objects[k].id = callObjects[k].id
               /\ (callObjects[k].type # "wall" \/ callObjects[k].id = active)
                      => objects[k] = callObjects[k]

\* a split pass has split a wall around activeObj and left whole a window that
\* contains activeObj just as the wall did
C26_Witness ==
    /\ pc = "split"
    /\ ret
    /\ \E k \in 1..Len(callObjects) :
        /\ callObjects[k].type = "window"
        /\ splitsOtherAnyType(callObjects[k], ActiveObj)
        /\ objects[k] = callObjects[k]

\* a loop iteration has fused two walls of a collection that holds a door
C26_MergedBesideADoor ==
    /\ JustMerged
    /\ \E k \in 1..Len(prevObjects) : prevObjects[k].type = "door"
    /\ \E k \in 1..Len(objects) : objects[k].type = "door"

(***************************************************************************)
(* The gestures of the editor: tool buttons, mouse and Escape, where a     *)
(* mousedown can follow a mousedown with no mouseup between them (the      *)
(* listener does not look at e.button, and a release outside the window is *)
(* never seen).                                                            *)
(***************************************************************************)
\* a mousedown is delivered while the last one has not been followed by a mouseup
MouseDownAgain ==
    /\ pressed
    /\ \E p \in Points :
        \E r \in {mousedown(State, p.x, p.y, FALSE, FALSE)} : Handled(r)
    /\ UNCHANGED pressed

NextGesture ==
    \/ SetMode \/ MouseDown \/ MouseDownAgain \/ MouseMove \/ MouseUp \/ Escape

SpecGesture == Init /\ [][NextGesture]_vars

(***************************************************************************)
(* C27: the gesture flags                                                  *)
(***************************************************************************)
\* the gesture flags that are set
GestureFlags ==
    { f \in { <<"isDragging", isDragging>>, <<"isResizing", isResizing>>,
              <<"isMoving", isMoving>>, <<"isRotating", isRotating>>,
              <<"isBoxSelecting", isBoxSelecting>> } : f[2] }

\* the mouseup handler has just returned
AfterMouseUp == pressed /\ ~ pressed'

\* C27: in every reachable state at most one of isDragging, isResizing, isMoving,
\* isRotating and isBoxSelecting is set
C27_OneGestureAtATime == Cardinality(GestureFlags) <= 1

\* C27: when the mouseup handler returns none of the five flags is set and
\* isPotentialMove is false
C27_MouseUpEndsGesture ==
    [][ AfterMouseUp => (~ isDragging' /\ ~ isResizing' /\ ~ isMoving' /\ ~ isRotating'
                             /\ ~ isBoxSelecting' /\ ~ isPotentialMove') ]_vars

\* a button went down in wall mode, Escape was pressed, and a second button went down
\* on the empty canvas: a draw gesture and a box selection are in progress together
C27_DrawAndBoxSelect ==
    /\ isDragging
    /\ isBoxSelecting
    /\ mode = "null"
    /\ pressed

\* the buttons were released after that: the draw gesture is still in progress
C27_DragOutlivesMouseUp ==
    /\ ~ pressed
    /\ isDragging
    /\ ~ isBoxSelecting

(***************************************************************************)
(* history.js on its own: pushSnapshot, undo and redo called on a state    *)
(* whose collection is edited between the calls.  `limit` is the second    *)
(* parameter of pushSnapshot; a small one lets the stack overflow within a *)
(* few calls.  arg remembers the limit, the state the last call was made   *)
(* on and the state the call before it was made on.                        *)
(***************************************************************************)
HistoryLimits == {2, 3}

\* the part of the state the history functions read or write, and what the
\* call that left it returned
HistoryView ==
    [objects |-> objects, selection |-> selection, history |-> history,
     historyIndex |-> historyIndex, call |-> pc, ret |-> ret]

\* the collection after one edit: a wall it does not hold yet is drawn, or
\* its last object is deleted
EditedPlans(objs) ==
    { Append(objs, [w EXCEPT !.id = FreshId(Ids(objs) \cup HeldIds)]) :
          w \in { v \in HealWalls : \A k \in 1..Len(objs) :
                      ContentOf(<< objs[k] >>) # ContentOf(<< v >>) } }
        \cup (IF Len(objs) > 0 THEN { SubSeq(objs, 1, Len(objs) - 1) } ELSE {})

InitHistory ==
    /\ objects = << >>
    /\ selection = << >>
    /\ scale = [n |-> 1, d |-> 1]
    /\ mode = "null"
    /\ isDragging = FALSE
    /\ dragStart = NULL
    /\ isResizing = FALSE
    /\ resizeHandle = "null"
    /\ isMoving = FALSE
    /\ isPotentialMove = FALSE
    /\ lastMousePos = NULL
    /\ isRotating = FALSE
    /\ rotationCenter = NULL
    /\ rotationStartAngle = [dx |-> 1, dy |-> 0]
    /\ initialObjectStates = << >>
    /\ isBoxSelecting = FALSE
    /\ boxSelectionStart = NULL
    /\ boxSelectionEnd = NULL
    /\ history = << >>
    /\ historyIndex = -1
    /\ detached = << >>
    /\ pressed = FALSE
    /\ nEvents = 0
    /\ nImports = 0
    /\ pc = "idle"
    /\ ret = FALSE
    /\ \E limit \in HistoryLimits :
           arg = [limit |-> limit, before |-> HistoryView, earlier |-> HistoryView]
    /\ out = NULL
    /\ origin = << >>
    /\ touched = {}
    /\ prevObjects = << >>
    /\ prevSelection = << >>
    /\ callObjects = << >>
    /\ callSelection = << >>
    /\ active = 0
    /\ nMerges = 0
    /\ priorMerges = 0
    /\ lastPair = << >>

\* a history function returned: the state it left and its return value
HistoryCalled(name, st, rv) ==
    /\ nEvents < MaxEvents
    /\ nEvents' = nEvents + 1
    /\ objects' = st.objects
    /\ selection' = st.selection
    /\ history' = st.history
    /\ historyIndex' = st.historyIndex
    /\ pc' = name
    /\ ret' = rv
    /\ arg' = [limit |-> arg.limit, before |-> HistoryView, earlier |-> arg.before]
    /\ out' = rv
    /\ UNCHANGED <<scale, mode, isDragging, dragStart, isResizing, resizeHandle, isMoving,
                   isPotentialMove, lastMousePos, isRotating, rotationCenter,
                   rotationStartAngle, initialObjectStates, isBoxSelecting,
                   boxSelectionStart, boxSelectionEnd, detached, pressed, nImports,
                   prevObjects, prevSelection, touched, callObjects, callSelection,
                   active, nMerges, priorMerges, lastPair>>

\* the origins of the snapshots the stack holds once the collection `before`
\* has been edited and the edit recorded: the stack is `after`, `kept` of its
\* snapshots were there already
OriginsAfter(before, after, kept) ==
    [k \in 1..Len(after) |->
        IF k = Len(after)
        THEN ContentOf(before)
        ELSE origin[k + (kept - (Len(after) - 1))]]

\* the collection is edited, the first object left is selected and the edit
\* is recorded
PushSnapshot ==
    \E objs \in EditedPlans(objects) :
        LET sel == IF Len(objs) > 0 THEN << objs[1].id >> ELSE << >>
            kept == IF historyIndex < Len(history) - 1 THEN historyIndex + 1 ELSE Len(history)
            st == pushSnapshot([State EXCEPT !.objects = objs, !.selection = sel], arg.limit)
        IN  /\ HistoryCalled("pushSnapshot", st, FALSE)
            /\ origin' = OriginsAfter(objects, st.history, kept)

HistoryUndo ==
    /\ \E r \in {undo(State)} : HistoryCalled("undo", r.state, r.ret)
    /\ UNCHANGED origin

HistoryRedo ==
    /\ \E r \in {redo(State)} : HistoryCalled("redo", r.state, r.ret)
    /\ UNCHANGED origin

NextHistory ==
    \/ PushSnapshot \/ HistoryUndo \/ HistoryRedo

SpecHistory == InitHistory /\ [][NextHistory]_vars

(***************************************************************************)
(* C28: the bounds of the history stack                                    *)
(***************************************************************************)
\* the state `view` has snapshots above historyIndex: a redo branch
RedoBranchWas(view) == view.historyIndex < Len(view.history) - 1

\* C28: after any sequence of pushSnapshot, undo and redo, historyIndex lies
\* between -1 and history.length - 1 and the stack holds at most `limit`
\* snapshots; right after pushSnapshot historyIndex is history.length - 1, so
\* no redo branch is left and a redo called then returns false
C28_HistoryBounds ==
    /\ -1 <= historyIndex
    /\ historyIndex <= Len(history) - 1
    /\ Len(history) <= arg.limit
    /\ pc = "pushSnapshot" => historyIndex = Len(history) - 1
    /\ (pc = "redo" /\ arg.before.call = "pushSnapshot") => ~ ret

\* a redo was refused right after an edit was recorded on top of a redo branch
C28_Witness ==
    /\ pc = "redo"
    /\ arg.before.call = "pushSnapshot"
    /\ RedoBranchWas(arg.earlier)
    /\ ~ ret

\* an edit was recorded on a full stack: the oldest snapshot was evicted
C28_Evicted ==
    /\ pc = "pushSnapshot"
    /\ Len(arg.before.history) = arg.limit
    /\ ~ RedoBranchWas(arg.before)
    /\ Len(history) = arg.limit

(***************************************************************************)
(* C29: undo and redo are inverse of each other                            *)
(***************************************************************************)
\* in the state `view` the live collection has the content of the snapshot
\* at historyIndex
LiveWasCurrent(view) ==
    /\ view.historyIndex >= 0
    /\ ContentOf(view.objects) = ContentOf(view.history[view.historyIndex + 1])

\* the last call left what it reads and writes as it was in `view`
LeftAsIn(view) ==
    /\ objects = view.objects
    /\ selection = view.selection
    /\ history = view.history
    /\ historyIndex = view.historyIndex

\* C29: when the live collection has the content of the snapshot at
\* historyIndex, an undo that returns true followed by a redo makes the redo
\* return true and restores the content of the collection and historyIndex
\* (also from historyIndex 0 to -1 and back); an undo at historyIndex -1 and
\* a redo at the top of the stack return false and change nothing; a
\* successful undo or redo leaves the selection empty
C29_UndoRedoRoundTrip ==
    /\ (/\ pc = "redo"
        /\ arg.before.call = "undo"
        /\ arg.before.ret
        /\ LiveWasCurrent(arg.earlier))
           => (/\ ret
               /\ ContentOf(objects) = ContentOf(arg.earlier.objects)
               /\ historyIndex = arg.earlier.historyIndex)
    /\ (pc = "undo" /\ arg.before.historyIndex = -1) => (~ ret /\ LeftAsIn(arg.before))
    /\ (pc = "redo" /\ ~ RedoBranchWas(arg.before)) => (~ ret /\ LeftAsIn(arg.before))
    /\ (pc \in {"undo", "redo"} /\ ret) => selection = << >>

\* the first snapshot was undone, emptying the plan and the selection, and
\* redone
C29_Witness ==
    /\ pc = "redo"
    /\ ret
    /\ arg.before.call = "undo"
    /\ arg.before.ret
    /\ arg.earlier.historyIndex = 0
    /\ arg.earlier.selection # << >>
    /\ arg.before.objects = << >>
    /\ Len(objects) > 0
    /\ historyIndex = 0

\* an undo was refused below the first snapshot and a redo at the top
C29_UndoRefused ==
    /\ pc = "undo"
    /\ ~ ret
    /\ Len(history) > 0
    /\ arg.before.call = "undo"

C29_RedoRefused ==
    /\ pc = "redo"
    /\ ~ ret
    /\ arg.before.call = "redo"
    /\ arg.before.ret

(***************************************************************************)
(* C30: what one undo takes back                                           *)
(***************************************************************************)
\* the content the collection had before the edit that pushed the snapshot
\* current in the state `view`
BeforeCurrentEdit(view) == origin[view.historyIndex + 1]

\* C30: after a successful undo the collection has the content it had
\* immediately before the edit that produced the snapshot that was current,
\* also when that snapshot is the oldest one left after the limit evicted
\* older ones
C30_UndoRevertsOneEdit ==
    (pc = "undo" /\ ret) => ContentOf(objects) = BeforeCurrentEdit(arg.before)

\* the stack overflowed, and the undo of the oldest snapshot left emptied a
\* plan that was not empty before that snapshot's edit
C30_OldestAfterEviction ==
    /\ pc = "undo"
    /\ ret
    /\ arg.before.historyIndex = 0
    /\ objects = << >>
    /\ BeforeCurrentEdit(arg.before) # << >>

\* an undo from a snapshot above the oldest one left takes back one edit
C30_UndoAboveOldest ==
    (pc = "undo" /\ ret /\ arg.before.historyIndex > 0)
        => ContentOf(objects) = BeforeCurrentEdit(arg.before)


====
